---- MODULE Spec2Model ----
(***************************************************************************)
(* A model of the MoMo SMS ETL pipeline: extraction (parse_xml.py),        *)
(* normalization (clean_normalize.py), classification (categorize.py) and  *)
(* persistence (load_db.py), driven by run.py.                             *)
(*                                                                         *)
(* Python values are tagged records: None, Str(s) with s a sequence of     *)
(* one-character strings, Float(n) with n the value in hundredths.         *)
(* A dict is a function from key names to values.                          *)
(***************************************************************************)
EXTENDS Integers, Sequences, FiniteSets, TLC

VARIABLES
    fn,            \* pure-function harness: the function last applied ("" at start)
    arg,           \* its argument
    ret,           \* its result
    ret2,          \* the result of a second application (None until then)
    now,           \* the wall clock read by datetime.now()
    \* run.py: MoMoETLRunner
    pc,            \* the position of run_pipeline
    runs,          \* the number of pipeline runs started
    xml_file,      \* the input document of the current run
    result,        \* what run_pipeline returned (None while running)
    \* parse_xml.py: MoMoXMLParser
    parsed_data,
    errors,
    \* clean_normalize.py: DataCleaner
    cleaned_data,
    cleaning_errors,
    \* categorize.py: TransactionCategorizer
    categorized_data,
    categorization_errors,
    category_stats,
    \* load_db.py: DatabaseLoader
    connection,    \* "closed" or "open"
    loaded_count,
    load_errors,
    call,          \* the DatabaseLoader method in progress ("" when none)
    batch,         \* the argument of the load_transactions call in progress
    load_i,        \* the position of its loop in batch
    loaded,        \* its local loaded_count
    raised,        \* the exception the last call of the loader raised ("" when it returned)
    \* the SQLite file
    db,            \* what is committed
    tx,            \* what the connection sees: db and its uncommitted writes
    dashboard_json \* the last exported snapshot (None before the first)

fnVars == <<fn, arg, ret, ret2>>
runVars == <<pc, runs, xml_file, result>>
parserVars == <<parsed_data, errors>>
cleanerVars == <<cleaned_data, cleaning_errors>>
categorizerVars == <<categorized_data, categorization_errors, category_stats>>
loaderVars == <<connection, loaded_count, load_errors, call, batch, load_i, loaded, raised>>
dbVars == <<db, tx, dashboard_json>>
stageVars == <<parserVars, cleanerVars, categorizerVars>>
vars == <<fnVars, now, runVars, stageVars, loaderVars, dbVars>>

(***************************************************************************)
(* Python values                                                           *)
(***************************************************************************)
None == [t |-> "None"]
Str(s) == [t |-> "str", v |-> s]
Float(n) == [t |-> "float", v |-> n]

IsNone(x) == x = None
IsStr(x) == x.t = "str"
IsFloat(x) == x.t = "float"

\* Python truthiness: None, "" and 0.0 are falsy.
Truthy(x) ==
    CASE x.t = "None" -> FALSE
      [] x.t = "str" -> x.v # <<>>
      [] x.t = "float" -> x.v # 0
      [] OTHER -> TRUE

\* dict.get(key, default): the default only when the key is absent.
Get(d, k, default) == IF k \in DOMAIN d THEN d[k] ELSE default

(***************************************************************************)
(* Text                                                                    *)
(***************************************************************************)
Digits == {"0","1","2","3","4","5","6","7","8","9"}
Whitespace == {" ", "\t", "\n", "<NBSP>"}
UpperCase == <<"A","B","C","D","E","F","G","H","I","J","K","L","M","N","O","P","Q","R","S","T","U","V","W","X","Y","Z">>
LowerCase == <<"a","b","c","d","e","f","g","h","i","j","k","l","m","n","o","p","q","r","s","t","u","v","w","x","y","z">>

LowerChar(c) ==
    IF \E i \in DOMAIN UpperCase : UpperCase[i] = c
    THEN LowerCase[CHOOSE i \in DOMAIN UpperCase : UpperCase[i] = c]
    ELSE c

\* str.lower()
Lower(s) == [i \in DOMAIN s |-> LowerChar(s[i])]

StartsWith(s, p) == Len(s) >= Len(p) /\ SubSeq(s, 1, Len(p)) = p

\* needle in hay
Contains(hay, needle) ==
    \E i \in 1..(Len(hay) - Len(needle) + 1) : SubSeq(hay, i, i + Len(needle) - 1) = needle

RECURSIVE LStrip(_)
LStrip(s) == IF s # <<>> /\ Head(s) \in Whitespace THEN LStrip(Tail(s)) ELSE s

RECURSIVE RStrip(_)
RStrip(s) ==
    IF s # <<>> /\ s[Len(s)] \in Whitespace THEN RStrip(SubSeq(s, 1, Len(s) - 1)) ELSE s

\* str.strip()
Strip(s) == RStrip(LStrip(s))

\* re.sub(r'[^...]', '', s): keep only the characters of the class.
KeepOnly(s, class) == SelectSeq(s, LAMBDA c : c \in class)

(***************************************************************************)
(* config.py                                                               *)
(***************************************************************************)
COUNTRY_DIAL_CODE == <<"+","2","5","0">>

\* COUNTRY_DIAL_CODE.lstrip('+')
DialCodeDigits == IF Head(COUNTRY_DIAL_CODE) = "+" THEN Tail(COUNTRY_DIAL_CODE) ELSE COUNTRY_DIAL_CODE

(***************************************************************************)
(* clean_normalize.py: DataCleaner._normalize_phone                        *)
(***************************************************************************)
\* A normalizer whose trunk-prefix branch prepends the dial code without its '+'.
NormalizePhoneStripsPlus(phone_value) ==
    IF ~Truthy(phone_value) THEN None
    ELSE LET cleaned == KeepOnly(Strip(phone_value.v), Digits \cup {"+"})
         IN  IF StartsWith(cleaned, COUNTRY_DIAL_CODE) THEN Str(cleaned)
             ELSE IF StartsWith(cleaned, DialCodeDigits) THEN Str(<<"+">> \o cleaned)
             ELSE IF StartsWith(cleaned, <<"0">>) THEN Str(DialCodeDigits \o Tail(cleaned))
             ELSE IF Len(cleaned) = 9 THEN Str(COUNTRY_DIAL_CODE \o cleaned)
             ELSE None

_normalize_phone(phone_value) ==
    IF ~Truthy(phone_value) THEN None
    ELSE LET cleaned == KeepOnly(Strip(phone_value.v), Digits \cup {"+"})
         IN  IF StartsWith(cleaned, COUNTRY_DIAL_CODE) THEN Str(cleaned)
             ELSE IF StartsWith(cleaned, DialCodeDigits) THEN Str(<<"+">> \o cleaned)
             ELSE IF StartsWith(cleaned, <<"0">>) THEN Str(COUNTRY_DIAL_CODE \o Tail(cleaned))
             ELSE IF Len(cleaned) = 9 THEN Str(COUNTRY_DIAL_CODE \o cleaned)
             ELSE IF Len(cleaned) = 10 /\ StartsWith(cleaned, <<"0">>)
                  THEN Str(COUNTRY_DIAL_CODE \o Tail(cleaned))
             ELSE None

(***************************************************************************)
(* Numbers in text                                                         *)
(***************************************************************************)
DigitSeq == <<"0","1","2","3","4","5","6","7","8","9">>

DigitVal(c) == (CHOOSE i \in DOMAIN DigitSeq : DigitSeq[i] = c) - 1

RECURSIVE NatOf(_)
NatOf(s) == IF s = <<>> THEN 0 ELSE NatOf(SubSeq(s, 1, Len(s) - 1)) * 10 + DigitVal(s[Len(s)])

RECURSIVE DigitsOf(_)
DigitsOf(n) == IF n < 10 THEN <<DigitSeq[n + 1]>> ELSE DigitsOf(n \div 10) \o <<DigitSeq[(n % 10) + 1]>>

RECURSIVE ZeroPad(_, _)
ZeroPad(s, width) == IF Len(s) >= width THEN s ELSE ZeroPad(<<"0">> \o s, width)

\* The part of a float literal after an optional sign.
UnsignedPart(s) == IF s # <<>> /\ Head(s) = "-" THEN Tail(s) ELSE s

\* Whether float(s) succeeds, for s over digits, "." and "-".
FloatParses(s) ==
    LET body == UnsignedPart(s)
    IN  /\ \A i \in DOMAIN body : body[i] \in Digits \cup {"."}
        /\ Cardinality({i \in DOMAIN body : body[i] = "."}) <= 1
        /\ \E i \in DOMAIN body : body[i] \in Digits

\* float(s) in hundredths, for a literal with at most two fractional digits.
FloatOf(s) ==
    LET body == UnsignedPart(s)
        dots == {i \in DOMAIN body : body[i] = "."}
        dot == IF dots = {} THEN Len(body) + 1 ELSE CHOOSE i \in dots : TRUE
        whole == SubSeq(body, 1, dot - 1)
        frac == SubSeq(body, dot + 1, Len(body))
        frac2 == SubSeq(frac \o <<"0","0">>, 1, 2)
        magnitude == NatOf(whole) * 100 + NatOf(frac2)
    IN  IF s # <<>> /\ Head(s) = "-" THEN 0 - magnitude ELSE magnitude

(***************************************************************************)
(* parse_xml.py: the document                                              *)
(* An element is [tag, text, children, attrib]; attrib maps names to text. *)
(***************************************************************************)
NoAttrib == [x \in {} |-> <<>>]

Leaf(tag, text) == [tag |-> tag, text |-> text, children |-> <<>>, attrib |-> NoAttrib]

Element(tag, children) == [tag |-> tag, text |-> None, children |-> children, attrib |-> NoAttrib]

Min(S) == CHOOSE x \in S : \A y \in S : x <= y

\* elem.find(name): the index of the first direct child with that tag, 0 if none.
FindIndex(elem, name) ==
    LET hits == {i \in DOMAIN elem.children : elem.children[i].tag = name}
    IN  IF hits = {} THEN 0 ELSE Min(hits)

RECURSIVE DescendantsOf(_)
DescendantsOf(children) ==
    IF children = <<>> THEN <<>>
    ELSE <<Head(children)>> \o DescendantsOf(Head(children).children) \o DescendantsOf(Tail(children))

\* root.findall('.//tag')
FindAll(root, tag) == SelectSeq(DescendantsOf(root.children), LAMBDA e : e.tag = tag)

ID_FIELDS ==
    <<<<"i","d">>,
      <<"t","r","a","n","s","a","c","t","i","o","n","_","i","d">>,
      <<"r","e","f">>,
      <<"r","e","f","e","r","e","n","c","e">>>>

DATE_FIELDS ==
    <<<<"d","a","t","e">>,
      <<"t","i","m","e","s","t","a","m","p">>,
      <<"t","i","m","e">>,
      <<"c","r","e","a","t","e","d","_","a","t">>>>

AMOUNT_FIELDS ==
    <<<<"a","m","o","u","n","t">>,
      <<"v","a","l","u","e">>,
      <<"s","u","m">>,
      <<"t","o","t","a","l">>>>

PHONE_FIELDS ==
    <<<<"p","h","o","n","e">>,
      <<"m","o","b","i","l","e">>,
      <<"n","u","m","b","e","r">>,
      <<"m","s","i","s","d","n">>>>

MESSAGE_FIELDS ==
    <<<<"m","e","s","s","a","g","e">>,
      <<"t","e","x","t">>,
      <<"c","o","n","t","e","n","t">>,
      <<"b","o","d","y">>>>

STATUS_FIELDS ==
    <<<<"s","t","a","t","u","s">>,
      <<"s","t","a","t","e">>,
      <<"r","e","s","u","l","t">>>>

SENDER_FIELDS ==
    <<<<"s","e","n","d","e","r">>,
      <<"f","r","o","m">>,
      <<"s","o","u","r","c","e">>>>

RECIPIENT_FIELDS ==
    <<<<"r","e","c","i","p","i","e","n","t">>,
      <<"t","o">>,
      <<"d","e","s","t","i","n","a","t","i","o","n">>>>

TYPE_FIELDS ==
    <<<<"t","y","p","e">>,
      <<"t","r","a","n","s","a","c","t","i","o","n","_","t","y","p","e">>,
      <<"c","a","t","e","g","o","r","y">>>>

FEE_FIELDS ==
    <<<<"f","e","e">>,
      <<"c","h","a","r","g","e">>,
      <<"c","o","s","t">>>>

BALANCE_FIELDS ==
    <<<<"b","a","l","a","n","c","e">>,
      <<"a","c","c","o","u","n","t","_","b","a","l","a","n","c","e">>>>

otp_keywords ==
    <<<<"o","n","e","-","t","i","m","e"," ","p","a","s","s","w","o","r","d">>,
      <<"o","t","p">>,
      <<"d","o","e","s"," ","n","o","t"," ","r","e","c","o","m","m","e","n","d"," ","t","h","a","t"," ","y","o","u"," ","s","h","a","r","e">>,
      <<"v","e","r","i","f","i","c","a","t","i","o","n"," ","c","o","d","e">>,
      <<"d","o"," ","n","o","t"," ","s","h","a","r","e">>,
      <<"b","e"," ","v","i","g","i","l","a","n","t">>>>

SELECTOR_TAGS ==
    <<<<"t","r","a","n","s","a","c","t","i","o","n">>,
      <<"s","m","s">>,
      <<"m","e","s","s","a","g","e">>,
      <<"r","e","c","o","r","d">>>>


(***************************************************************************)
(* parse_xml.py: MoMoXMLParser                                             *)
(***************************************************************************)
RECURSIVE _extract_text(_, _)
_extract_text(elem, field_names) ==
    IF field_names = <<>> THEN None
    ELSE LET field_name == Head(field_names)
             child == FindIndex(elem, field_name)
             anycase == {i \in DOMAIN elem.children :
                            /\ Lower(elem.children[i].tag) = Lower(field_name)
                            /\ Truthy(elem.children[i].text)}
         IN  IF child # 0 /\ Truthy(elem.children[child].text)
                 THEN Str(Strip(elem.children[child].text.v))
             ELSE IF field_name \in DOMAIN elem.attrib
                 THEN Str(Strip(elem.attrib[field_name]))
             ELSE IF anycase # {}
                 THEN Str(Strip(elem.children[Min(anycase)].text.v))
             ELSE _extract_text(elem, Tail(field_names))

_extract_amount(elem, field_names) ==
    LET amount_text == _extract_text(elem, field_names)
    IN  IF ~Truthy(amount_text) THEN None
        ELSE LET cleaned == KeepOnly(amount_text.v, Digits \cup {".", "-"})
             IN  IF FloatParses(cleaned) THEN Float(FloatOf(cleaned)) ELSE None

GHANA_CODE == <<"+","2","3","3">>

_extract_phone(elem) ==
    LET phone_text == _extract_text(elem, PHONE_FIELDS)
    IN  IF ~Truthy(phone_text) THEN None
        ELSE LET cleaned == KeepOnly(phone_text.v, Digits \cup {"+"})
                 phone == IF StartsWith(cleaned, <<"0">>) THEN GHANA_CODE \o Tail(cleaned)
                          ELSE IF StartsWith(cleaned, Tail(GHANA_CODE)) /\ ~StartsWith(cleaned, GHANA_CODE)
                               THEN <<"+">> \o cleaned
                          ELSE cleaned
             IN  IF phone # <<>> THEN Str(phone) ELSE None

\* A validation that requires the amount only.
ValidateIgnoresDate(transaction) == Truthy(Get(transaction, "amount", None))

_validate_transaction(transaction) ==
    /\ Truthy(Get(transaction, "date", None))
    /\ Truthy(Get(transaction, "amount", None))

\* A filter that knows the keyword 'otp' only.
IsOtpMessageOneKeyword(message_lower) == Contains(message_lower, <<"o","t","p">>)

_is_otp_message(message_lower) ==
    /\ message_lower # <<>>
    /\ \E i \in DOMAIN otp_keywords : Contains(message_lower, otp_keywords[i])

\* f"TXN{index:06d}"
GeneratedId(index) == Str(<<"T","X","N">> \o ZeroPad(DigitsOf(index), 6))

\* if not transaction['id']: transaction['id'] = f"TXN{index:06d}"
IdOrGenerated(id, index) == IF Truthy(id) THEN id ELSE GeneratedId(index)

\* if not self._validate_transaction(transaction): return None
Validated(transaction) == IF _validate_transaction(transaction) THEN transaction ELSE None

\* Returns the transaction dict, or None when the required fields are missing.
_parse_transaction_element(elem, index) ==
    Validated(
            [id |-> IdOrGenerated(_extract_text(elem, ID_FIELDS), index),
             date |-> _extract_text(elem, DATE_FIELDS),
             amount |-> _extract_amount(elem, AMOUNT_FIELDS),
             phone |-> _extract_phone(elem),
             message |-> _extract_text(elem, MESSAGE_FIELDS),
             status |-> _extract_text(elem, STATUS_FIELDS),
             sender |-> _extract_text(elem, SENDER_FIELDS),
             recipient |-> _extract_text(elem, RECIPIENT_FIELDS),
             type |-> _extract_text(elem, TYPE_FIELDS),
             fee |-> _extract_amount(elem, FEE_FIELDS),
             balance |-> _extract_amount(elem, BALANCE_FIELDS),
             raw_data |-> [t |-> "xml", v |-> elem]])

\* The elements the first selector with a match yields; <<>> when none matches.
RECURSIVE SelectElements(_, _)
SelectElements(root, tags) ==
    IF tags = <<>> THEN <<>>
    ELSE IF FindAll(root, Head(tags)) # <<>> THEN FindAll(root, Head(tags))
    ELSE SelectElements(root, Tail(tags))

\* The loop of _extract_transactions over elements i..: the transactions kept.
\* message_lower = (transaction.get('message') or '').lower()
MessageLower(message) == IF Truthy(message) THEN Lower(message.v) ELSE <<>>

\* if transaction: ... if self._is_otp_message(message_lower): continue
KeepsTransaction(transaction) ==
    /\ ~IsNone(transaction)
    /\ ~_is_otp_message(MessageLower(Get(transaction, "message", None)))

RECURSIVE ExtractLoop(_, _)
ExtractLoop(elements, i) ==
    IF i > Len(elements) THEN <<>>
    ELSE SelectSeq(<<_parse_transaction_element(elements[i], i - 1)>>, KeepsTransaction)
            \o ExtractLoop(elements, i + 1)

\* [raised, transactions]: with no element under the four tags the fallback
\* findall('.//*[contains(local-name(), ...)]') raises SyntaxError.
ExtractFrom(transaction_elements) ==
    IF transaction_elements = <<>>
    THEN [raised |-> TRUE, transactions |-> <<>>]
    ELSE [raised |-> FALSE, transactions |-> ExtractLoop(transaction_elements, 1)]

_extract_transactions(root) == ExtractFrom(SelectElements(root, SELECTOR_TAGS))

(***************************************************************************)
(* clean_normalize.py: DataCleaner                                         *)
(***************************************************************************)
Txt_unknown == <<"u","n","k","n","o","w","n">>
Txt_version == <<"1",".","0">>

\* datetime.now().isoformat(), as a reading of the clock.
Timestamp(clock) == [t |-> "time", v |-> clock]

AllDigits(s) == \A i \in DOMAIN s : s[i] \in Digits

\* "YYYY-MM-DD" with a month and a day in range.
IsDateText(s) ==
    /\ Len(s) = 10
    /\ s[5] = "-" /\ s[8] = "-"
    /\ AllDigits(SubSeq(s, 1, 4)) /\ AllDigits(SubSeq(s, 6, 7)) /\ AllDigits(SubSeq(s, 9, 10))
    /\ NatOf(SubSeq(s, 6, 7)) \in 1..12
    /\ NatOf(SubSeq(s, 9, 10)) \in 1..31

\* "HH:MM:SS" in range.
IsTimeText(s) ==
    /\ Len(s) = 8
    /\ s[3] = ":" /\ s[6] = ":"
    /\ AllDigits(SubSeq(s, 1, 2)) /\ AllDigits(SubSeq(s, 4, 5)) /\ AllDigits(SubSeq(s, 7, 8))
    /\ NatOf(SubSeq(s, 1, 2)) < 24
    /\ NatOf(SubSeq(s, 4, 5)) < 60
    /\ NatOf(SubSeq(s, 7, 8)) < 60

\* "YYYY-MM-DD HH:MM:SS" or "YYYY-MM-DDTHH:MM:SS"
IsDateTimeText(s) ==
    /\ Len(s) = 19
    /\ IsDateText(SubSeq(s, 1, 10))
    /\ s[11] \in {" ", "T"}
    /\ IsTimeText(SubSeq(s, 12, 19))

Midnight == <<"T","0","0",":","0","0",":","0","0">>

\* The strategies of _normalize_date on the date texts of this model: the
\* date parser and the configured formats accept the two ISO-like shapes, the
\* regular expression r'(\d{4})-(\d{1,2})-(\d{1,2})' a text beginning with a
\* date; any other text here is one no strategy accepts.
_normalize_date(date_value) ==
    IF ~Truthy(date_value) THEN None
    ELSE LET date_str == Strip(date_value.v)
         IN  IF IsDateTimeText(date_str)
                 THEN Str(SubSeq(date_str, 1, 10) \o <<"T">> \o SubSeq(date_str, 12, 19))
             ELSE IF IsDateText(date_str)
                 THEN Str(date_str \o Midnight)
             ELSE IF Len(date_str) > 10 /\ IsDateText(SubSeq(date_str, 1, 10))
                 THEN Str(SubSeq(date_str, 1, 10) \o Midnight)
             ELSE None

\* A normalizer that strips surrounding blanks only.
NormalizeAmountKeepsSymbols(amount_value) ==
    IF IsNone(amount_value) THEN None
    ELSE IF IsFloat(amount_value) THEN amount_value
    ELSE LET cleaned == Strip(amount_value.v)
         IN  IF StartsWith(cleaned, <<"-">>)
             THEN IF FloatParses(Tail(cleaned)) THEN Float(0 - FloatOf(Tail(cleaned))) ELSE None
             ELSE IF FloatParses(cleaned) THEN Float(FloatOf(cleaned)) ELSE None

_normalize_amount(amount_value) ==
    IF IsNone(amount_value) THEN None
    ELSE IF IsFloat(amount_value) THEN amount_value
    ELSE LET cleaned == KeepOnly(Strip(amount_value.v), Digits \cup {".", "-"})
         IN  IF StartsWith(cleaned, <<"-">>)
             THEN IF FloatParses(Tail(cleaned)) THEN Float(0 - FloatOf(Tail(cleaned))) ELSE None
             ELSE IF FloatParses(cleaned) THEN Float(FloatOf(cleaned)) ELSE None

\* Characters outside ASCII are written as tokens.
ControlChars == {"\t", "\n", "<SOH>"}

\* unicodedata.normalize('NFKC', c) of one character
NFKCChar(c) ==
    CASE c = "<NBSP>" -> <<" ">>
      [] c = "<DIAERESIS>" -> <<" ", "<COMBINING DIAERESIS>">>
      [] OTHER -> <<c>>

RECURSIVE NFKC(_)
NFKC(s) == IF s = <<>> THEN <<>> ELSE NFKCChar(Head(s)) \o NFKC(Tail(s))

\* re.sub(r'\s+', ' ', s)
RECURSIVE CollapseWhitespace(_)
CollapseWhitespace(s) ==
    IF s = <<>> THEN <<>>
    ELSE IF Head(s) \in Whitespace
         THEN <<" ">> \o CollapseWhitespace(LStrip(s))
         ELSE <<Head(s)>> \o CollapseWhitespace(Tail(s))

_normalize_message(message_value) ==
    IF ~Truthy(message_value) THEN None
    ELSE LET stripped == Strip(message_value.v)
             collapsed == CollapseWhitespace(stripped)
             normalized == NFKC(collapsed)
             message_str == SelectSeq(normalized, LAMBDA c : c \notin ControlChars)
         IN  IF message_str # <<>> THEN Str(message_str) ELSE None

status_mapping ==
    <<<<<<"s","u","c","c","e","s","s">>, <<"s","u","c","c","e","s","s">>>>,
      <<<<"c","o","m","p","l","e","t","e","d">>, <<"s","u","c","c","e","s","s">>>>,
      <<<<"d","o","n","e">>, <<"s","u","c","c","e","s","s">>>>,
      <<<<"o","k">>, <<"s","u","c","c","e","s","s">>>>,
      <<<<"p","e","n","d","i","n","g">>, <<"p","e","n","d","i","n","g">>>>,
      <<<<"p","r","o","c","e","s","s","i","n","g">>, <<"p","e","n","d","i","n","g">>>>,
      <<<<"i","n","_","p","r","o","g","r","e","s","s">>, <<"p","e","n","d","i","n","g">>>>,
      <<<<"f","a","i","l","e","d">>, <<"f","a","i","l","e","d">>>>,
      <<<<"e","r","r","o","r">>, <<"f","a","i","l","e","d">>>>,
      <<<<"d","e","c","l","i","n","e","d">>, <<"f","a","i","l","e","d">>>>,
      <<<<"r","e","j","e","c","t","e","d">>, <<"f","a","i","l","e","d">>>>,
      <<<<"c","a","n","c","e","l","l","e","d">>, <<"c","a","n","c","e","l","l","e","d">>>>,
      <<<<"c","a","n","c","e","l","e","d">>, <<"c","a","n","c","e","l","l","e","d">>>>>>

type_mapping ==
    <<<<<<"p","a","y","m","e","n","t">>, <<"p","a","y","m","e","n","t">>>>,
      <<<<"p","a","y">>, <<"p","a","y","m","e","n","t">>>>,
      <<<<"b","i","l","l">>, <<"p","a","y","m","e","n","t">>>>,
      <<<<"u","t","i","l","i","t","y">>, <<"p","a","y","m","e","n","t">>>>,
      <<<<"t","r","a","n","s","f","e","r">>, <<"t","r","a","n","s","f","e","r">>>>,
      <<<<"s","e","n","d">>, <<"t","r","a","n","s","f","e","r">>>>,
      <<<<"m","o","n","e","y">>, <<"t","r","a","n","s","f","e","r">>>>,
      <<<<"w","i","t","h","d","r","a","w","a","l">>, <<"w","i","t","h","d","r","a","w","a","l">>>>,
      <<<<"w","i","t","h","d","r","a","w">>, <<"w","i","t","h","d","r","a","w","a","l">>>>,
      <<<<"c","a","s","h","o","u","t">>, <<"w","i","t","h","d","r","a","w","a","l">>>>,
      <<<<"d","e","p","o","s","i","t">>, <<"d","e","p","o","s","i","t">>>>,
      <<<<"t","o","p","u","p">>, <<"d","e","p","o","s","i","t">>>>,
      <<<<"r","e","c","h","a","r","g","e">>, <<"d","e","p","o","s","i","t">>>>>>

\* mapping.get(key, key)
Lookup(mapping, key) ==
    IF \E i \in DOMAIN mapping : mapping[i][1] = key
    THEN mapping[CHOOSE i \in DOMAIN mapping : mapping[i][1] = key][2]
    ELSE key

_normalize_status(status_value) ==
    IF ~Truthy(status_value) THEN Str(Txt_unknown)
    ELSE Str(Lookup(status_mapping, Lower(Strip(status_value.v))))

_normalize_type(type_value) ==
    IF ~Truthy(type_value) THEN Str(Txt_unknown)
    ELSE Str(Lookup(type_mapping, Lower(Strip(type_value.v))))

_normalize_sender(sender_value) ==
    IF ~Truthy(sender_value) THEN None
    ELSE LET sender_str == NFKC(CollapseWhitespace(Strip(sender_value.v)))
         IN  IF sender_str # <<>> THEN Str(sender_str) ELSE None

_normalize_recipient(recipient_value) ==
    IF ~Truthy(recipient_value) THEN None
    ELSE LET recipient_str == NFKC(CollapseWhitespace(Strip(recipient_value.v)))
         IN  IF recipient_str # <<>> THEN Str(recipient_str) ELSE None

_validate_cleaned_transaction(transaction) ==
    /\ Truthy(Get(transaction, "date", None))
    /\ Truthy(Get(transaction, "amount", None))

\* The cleaned copy of the dict, or None when it fails validation.
_clean_single_transaction(transaction, clock) ==
    LET cleaned ==
            [k \in (DOMAIN transaction) \cup
                   {"date", "amount", "phone", "message", "status", "type", "sender",
                    "recipient", "fee", "balance", "cleaned_at", "cleaning_version"} |->
                CASE k = "date" -> _normalize_date(Get(transaction, "date", None))
                  [] k = "amount" -> _normalize_amount(Get(transaction, "amount", None))
                  [] k = "phone" -> _normalize_phone(Get(transaction, "phone", None))
                  [] k = "message" -> _normalize_message(Get(transaction, "message", None))
                  [] k = "status" -> _normalize_status(Get(transaction, "status", None))
                  [] k = "type" -> _normalize_type(Get(transaction, "type", None))
                  [] k = "sender" -> _normalize_sender(Get(transaction, "sender", None))
                  [] k = "recipient" -> _normalize_recipient(Get(transaction, "recipient", None))
                  [] k = "fee" -> _normalize_amount(Get(transaction, "fee", None))
                  [] k = "balance" -> _normalize_amount(Get(transaction, "balance", None))
                  [] k = "cleaned_at" -> Timestamp(clock)
                  [] k = "cleaning_version" -> Str(Txt_version)
                  [] OTHER -> transaction[k]]
    IN  IF _validate_cleaned_transaction(cleaned) THEN cleaned ELSE None

\* The loop of clean_transactions: the records kept, in order.
RECURSIVE clean_transactions(_, _)
clean_transactions(transactions, clock) ==
    IF transactions = <<>> THEN <<>>
    ELSE LET cleaned == _clean_single_transaction(Head(transactions), clock)
         IN  IF IsNone(cleaned) THEN clean_transactions(Tail(transactions), clock)
             ELSE <<cleaned>> \o clean_transactions(Tail(transactions), clock)

(***************************************************************************)
(* categorize.py: TransactionCategorizer                                   *)
(***************************************************************************)
Txt_payment == <<"p","a","y","m","e","n","t">>
Txt_transfer == <<"t","r","a","n","s","f","e","r">>
Txt_withdrawal == <<"w","i","t","h","d","r","a","w","a","l">>
Txt_deposit == <<"d","e","p","o","s","i","t">>
Txt_small == <<"s","m","a","l","l">>
Txt_medium == <<"m","e","d","i","u","m">>
Txt_large == <<"l","a","r","g","e">>
Txt_very_large == <<"v","e","r","y","_","l","a","r","g","e">>
Txt_morning == <<"m","o","r","n","i","n","g">>
Txt_afternoon == <<"a","f","t","e","r","n","o","o","n">>
Txt_evening == <<"e","v","e","n","i","n","g">>
Txt_night == <<"n","i","g","h","t">>
Txt_low == <<"l","o","w">>
Txt_high == <<"h","i","g","h">>
Txt_failed == <<"f","a","i","l","e","d">>
Txt_pending == <<"p","e","n","d","i","n","g">>
Txt_Other == <<"O","t","h","e","r">>
Txt_Greater_Accra == <<"G","r","e","a","t","e","r"," ","A","c","c","r","a">>
Txt_Ashanti == <<"A","s","h","a","n","t","i">>
Txt_Western == <<"W","e","s","t","e","r","n">>
Txt_Central == <<"C","e","n","t","r","a","l">>

Keywords_payment ==
    <<<<"p","a","y","m","e","n","t">>,
      <<"p","a","y">>,
      <<"b","i","l","l">>,
      <<"u","t","i","l","i","t","y">>,
      <<"c","a","s","h"," ","p","o","w","e","r">>,
      <<"m","t","n"," ","c","a","s","h"," ","p","o","w","e","r">>,
      <<"h","a","s"," ","b","e","e","n"," ","c","o","m","p","l","e","t","e","d">>,
      <<"c","o","m","p","l","e","t","e","d">>,
      <<"t","o","k","e","n">>,
      <<"m","e","r","c","h","a","n","t">>,
      <<"d","i","r","e","c","t"," ","p","a","y","m","e","n","t">>>>
Keywords_transfer ==
    <<<<"t","r","a","n","s","f","e","r">>,
      <<"t","r","a","n","s","f","e","r","r","e","d">>,
      <<"s","e","n","d">>,
      <<"m","o","n","e","y">>,
      <<"c","a","s","h">>,
      <<"p","2","p">>,
      <<"t","o"," ">>,
      <<"f","r","o","m"," ">>,
      <<"y","o","u"," ","h","a","v","e"," ","r","e","c","e","i","v","e","d">>,
      <<"r","e","c","e","i","v","e","d">>>>
Keywords_withdrawal ==
    <<<<"w","i","t","h","d","r","a","w">>,
      <<"w","i","t","h","d","r","a","w","a","l">>,
      <<"a","t","m">>,
      <<"c","a","s","h","o","u","t">>,
      <<"w","i","t","h","d","r","a","w","n">>,
      <<"c","o","l","l","e","c","t"," ","y","o","u","r"," ","m","o","n","e","y"," ","i","n"," ","c","a","s","h">>,
      <<"c","a","s","h"," ","o","u","t">>,
      <<"c","a","s","h","-","o","u","t">>>>
Keywords_deposit ==
    <<<<"d","e","p","o","s","i","t">>,
      <<"t","o","p","u","p">>,
      <<"r","e","c","h","a","r","g","e">>,
      <<"a","d","d">>,
      <<"a","d","d","e","d"," ","t","o"," ","y","o","u","r"," ","m","o","b","i","l","e"," ","m","o","n","e","y"," ","a","c","c","o","u","n","t">>,
      <<"c","a","s","h"," ","d","e","p","o","s","i","t">>,
      <<"b","a","n","k"," ","d","e","p","o","s","i","t">>,
      <<"h","a","s"," ","b","e","e","n"," ","a","d","d","e","d">>>>

\* config.TRANSACTION_CATEGORIES, in insertion order
TRANSACTION_CATEGORIES ==
    <<[category |-> Txt_payment, keywords |-> Keywords_payment],
      [category |-> Txt_transfer, keywords |-> Keywords_transfer],
      [category |-> Txt_withdrawal, keywords |-> Keywords_withdrawal],
      [category |-> Txt_deposit, keywords |-> Keywords_deposit]>>

\* config.AMOUNT_THRESHOLDS
AMOUNT_THRESHOLDS == [small |-> 1000, medium |-> 5000, large |-> 10000]

\* A whole number of currency units, in hundredths.
Units(n) == n * 100

\* An exception leaving the function.
Raise == [t |-> "raise"]
Raised(x) == x = Raise

\* re.match(prefix + r'\d{n}', s)
MatchesPrefixDigits(s, prefix, n) ==
    /\ StartsWith(s, prefix)
    /\ Len(s) >= Len(prefix) + n
    /\ AllDigits(SubSeq(s, Len(prefix) + 1, Len(prefix) + n))

_is_merchant_phone(phone) ==
    /\ Truthy(phone)
    /\ \/ MatchesPrefixDigits(phone.v, <<"2","3","3">>, 9)
       \/ MatchesPrefixDigits(phone.v, <<"+","2","3","3">>, 9)

suspicious_patterns ==
    <<<<"0","0","0","0","0","0","0","0","0">>,
      <<"1","1","1","1","1","1","1","1","1">>,
      <<"1","2","3","4","5","6","7","8","9">>,
      <<"9","8","7","6","5","4","3","2","1">>>>

_is_suspicious_phone(phone) ==
    /\ Truthy(phone)
    /\ \E i \in DOMAIN suspicious_patterns : Contains(phone.v, suspicious_patterns[i])

\* category_scores is a dict in insertion order: a sequence of [category, score].
\* category_scores[category] += n
AddScore(scores, category, n) ==
    IF \E i \in DOMAIN scores : scores[i].category = category
    THEN [i \in DOMAIN scores |->
            IF scores[i].category = category
            THEN [category |-> category, score |-> scores[i].score + n]
            ELSE scores[i]]
    ELSE Append(scores, [category |-> category, score |-> n])

\* The number of keywords of the list that occur in the message.
KeywordHits(keywords, message) ==
    Cardinality({i \in DOMAIN keywords : Contains(message, Lower(keywords[i]))})

RECURSIVE KeywordScores(_, _)
KeywordScores(categories, message) ==
    IF categories = <<>> THEN <<>>
    ELSE LET hits == KeywordHits(Head(categories).keywords, message)
             rest == KeywordScores(Tail(categories), message)
         IN  IF hits > 0
             THEN <<[category |-> Head(categories).category, score |-> hits]>> \o rest
             ELSE rest

\* max(category_scores.items(), key=lambda x: x[1])[0]: the first entry with the top score.
MaxCategory(scores) ==
    LET top == CHOOSE n \in {scores[i].score : i \in DOMAIN scores} :
                   \A i \in DOMAIN scores : scores[i].score <= n
    IN  scores[Min({i \in DOMAIN scores : scores[i].score = top})].category

_determine_category(transaction) ==
    LET type == Get(transaction, "type", None)
        message_value == Get(transaction, "message", Str(<<>>))
        phone == Get(transaction, "phone", Str(<<>>))
        amount == Get(transaction, "amount", None)
        message == Lower(message_value.v)
        by_keyword == KeywordScores(TRANSACTION_CATEGORIES, message)
        by_phone == IF _is_merchant_phone(phone) THEN AddScore(by_keyword, Txt_payment, 2)
                    ELSE by_keyword
        category_scores ==
            IF ~Truthy(amount) THEN by_phone
            ELSE IF amount.v < Units(1000) THEN AddScore(by_phone, Txt_deposit, 1)
            ELSE IF amount.v > Units(10000) THEN AddScore(by_phone, Txt_transfer, 1)
            ELSE by_phone
    IN  IF Truthy(type) /\ type # Str(Txt_unknown) THEN type
        ELSE IF ~IsStr(message_value) THEN Raise
        ELSE IF Truthy(amount) /\ ~IsFloat(amount) THEN Raise
        ELSE IF category_scores # <<>> THEN Str(MaxCategory(category_scores))
        ELSE Str(Txt_unknown)

_categorize_amount_range(amount) ==
    IF IsNone(amount) THEN Str(Txt_unknown)
    ELSE IF amount.v <= Units(AMOUNT_THRESHOLDS.small) THEN Str(Txt_small)
    ELSE IF amount.v <= Units(AMOUNT_THRESHOLDS.medium) THEN Str(Txt_medium)
    ELSE IF amount.v <= Units(AMOUNT_THRESHOLDS.large) THEN Str(Txt_large)
    ELSE Str(Txt_very_large)

\* datetime.fromisoformat(date_str).hour, or -1 when the text is not ISO.
IsoHour(date_str) ==
    IF IsDateTimeText(date_str) THEN NatOf(SubSeq(date_str, 12, 13))
    ELSE IF IsDateText(date_str) THEN 0
    ELSE 0 - 1

_categorize_time(date_str) ==
    IF ~Truthy(date_str) THEN Str(Txt_unknown)
    ELSE IF ~IsStr(date_str) THEN Str(Txt_unknown)
    ELSE LET hour == IsoHour(date_str.v)
         IN  IF hour < 0 THEN Str(Txt_unknown)
             ELSE IF 6 <= hour /\ hour < 12 THEN Str(Txt_morning)
             ELSE IF 12 <= hour /\ hour < 17 THEN Str(Txt_afternoon)
             ELSE IF 17 <= hour /\ hour < 21 THEN Str(Txt_evening)
             ELSE Str(Txt_night)

_assess_risk_level(transaction) ==
    LET amount == Get(transaction, "amount", Float(0))
        status == Get(transaction, "status", Str(<<>>))
        phone == Get(transaction, "phone", Str(<<>>))
        by_amount == IF amount.v > Units(50000) THEN 3
                     ELSE IF amount.v > Units(10000) THEN 2
                     ELSE IF amount.v > Units(5000) THEN 1
                     ELSE 0
        by_time == IF _categorize_time(Get(transaction, "date", None)) = Str(Txt_night) THEN 1 ELSE 0
        by_status == IF Lower(status.v) \in {Txt_failed, Txt_pending} THEN 1 ELSE 0
        by_phone == IF _is_suspicious_phone(phone) THEN 2 ELSE 0
        risk_score == by_amount + by_time + by_status + by_phone
    IN  IF ~IsFloat(amount) \/ ~IsStr(status) THEN Raise
        ELSE IF risk_score >= 4 THEN Str(Txt_high)
        ELSE IF risk_score >= 2 THEN Str(Txt_medium)
        ELSE Str(Txt_low)

\* region_mapping.get(area_code, 'Other'): the table has every code from 20 to 59.
RegionOf(area_code) ==
    IF Len(area_code) = 2 /\ AllDigits(area_code)
    THEN CASE area_code[1] = "2" -> Txt_Greater_Accra
           [] area_code[1] = "3" -> Txt_Ashanti
           [] area_code[1] = "4" -> Txt_Western
           [] area_code[1] = "5" -> Txt_Central
           [] OTHER -> Txt_Other
    ELSE Txt_Other

_determine_geographic_region(transaction) ==
    LET phone == Get(transaction, "phone", Str(<<>>))
    IN  IF ~Truthy(phone) THEN Str(Txt_unknown)
        ELSE IF StartsWith(phone.v, GHANA_CODE)
             THEN Str(RegionOf(SubSeq(phone.v, 5, IF Len(phone.v) < 6 THEN Len(phone.v) ELSE 6)))
        ELSE Str(Txt_unknown)

\* A classifier that also stamps cleaned_at with its own clock reading.
CategorizeRestampsCleanedAt(transaction, clock) ==
    LET category == _determine_category(transaction)
        risk_level == _assess_risk_level(transaction)
        labels ==
            [category |-> category,
             amount_range |-> _categorize_amount_range(Get(transaction, "amount", None)),
             time_category |-> _categorize_time(Get(transaction, "date", None)),
             risk_level |-> risk_level,
             geographic_region |-> _determine_geographic_region(transaction),
             cleaned_at |-> Timestamp(clock),
             categorized_at |-> Timestamp(clock),
             categorization_version |-> Str(Txt_version)]
    IN  IF Raised(category) \/ Raised(risk_level) THEN None
        ELSE [k \in (DOMAIN transaction) \cup DOMAIN labels |->
                IF k \in DOMAIN labels THEN labels[k] ELSE transaction[k]]

\* A classifier that writes the category over the record's type.
CategorizeOverwritesType(transaction, clock) ==
    LET category == _determine_category(transaction)
        risk_level == _assess_risk_level(transaction)
        labels ==
            [category |-> category,
             type |-> category,
             amount_range |-> _categorize_amount_range(Get(transaction, "amount", None)),
             time_category |-> _categorize_time(Get(transaction, "date", None)),
             risk_level |-> risk_level,
             geographic_region |-> _determine_geographic_region(transaction),
             categorized_at |-> Timestamp(clock),
             categorization_version |-> Str(Txt_version)]
    IN  IF Raised(category) \/ Raised(risk_level) THEN None
        ELSE [k \in (DOMAIN transaction) \cup DOMAIN labels |->
                IF k \in DOMAIN labels THEN labels[k] ELSE transaction[k]]

\* The categorized copy of the dict, or None when a rule raised.
_categorize_single_transaction(transaction, clock) ==
    LET category == _determine_category(transaction)
        risk_level == _assess_risk_level(transaction)
        labels ==
            [category |-> category,
             amount_range |-> _categorize_amount_range(Get(transaction, "amount", None)),
             time_category |-> _categorize_time(Get(transaction, "date", None)),
             risk_level |-> risk_level,
             geographic_region |-> _determine_geographic_region(transaction),
             categorized_at |-> Timestamp(clock),
             categorization_version |-> Str(Txt_version)]
    IN  IF Raised(category) \/ Raised(risk_level) THEN None
        ELSE [k \in (DOMAIN transaction) \cup DOMAIN labels |->
                IF k \in DOMAIN labels THEN labels[k] ELSE transaction[k]]

\* The loop of categorize_transactions: the records kept, in order.
RECURSIVE categorize_transactions(_, _)
categorize_transactions(transactions, clock) ==
    IF transactions = <<>> THEN <<>>
    ELSE LET categorized == _categorize_single_transaction(Head(transactions), clock)
         IN  IF IsNone(categorized) THEN categorize_transactions(Tail(transactions), clock)
             ELSE <<categorized>> \o categorize_transactions(Tail(transactions), clock)

(***************************************************************************)
(* load_db.py: DatabaseLoader and the SQLite file                          *)
(* A table is a set of rows; the audit log is the sequence of its rows in  *)
(* AUTOINCREMENT order. writes is a history of the INSERT OR REPLACE       *)
(* statements that succeeded: the row written and whether its id was       *)
(* absent from the table until then.                                       *)
(***************************************************************************)
EmptyDb ==
    [tables |-> FALSE, transactions |-> {}, audit_log |-> <<>>, analytics |-> {}, writes |-> <<>>]

COLUMNS ==
    {"id", "date", "amount", "phone", "message", "status", "type", "category", "sender",
     "recipient", "fee", "balance", "amount_range", "time_category", "risk_level",
     "geographic_region", "raw_data", "cleaned_at", "cleaning_version", "categorized_at",
     "categorization_version"}

\* transaction.get(key, default) for each column
ColumnDefault(k) ==
    CASE k \in {"id", "date"} -> Str(<<>>)
      [] k = "amount" -> Float(0)
      [] k \in {"status", "category"} -> Str(Txt_unknown)
      [] OTHER -> None

\* SELECT id FROM transactions WHERE id = ?
Existing(table, id) == {r \in table : ~IsNone(id) /\ r.id = id}

\* A pre-check that reads the committed table instead of the connection's view.
PrepareReadsCommitted(transaction) ==
    [k \in COLUMNS \cup {"is_new"} |->
        IF k = "is_new"
        THEN Existing(db.transactions, Get(transaction, "id", ColumnDefault("id"))) = {}
        ELSE Get(transaction, k, ColumnDefault(k))]

_prepare_transaction_data(transaction) ==
    [k \in COLUMNS \cup {"is_new"} |->
        IF k = "is_new"
        THEN Existing(tx.transactions, Get(transaction, "id", ColumnDefault("id"))) = {}
        ELSE Get(transaction, k, ColumnDefault(k))]

\* The row the INSERT OR REPLACE statement binds.
RowOf(data) == [k \in COLUMNS |-> data[k]]

\* Whether the statement violates a NOT NULL constraint (date, amount).
ViolatesNotNull(row) == IsNone(row.date) \/ IsNone(row.amount)

\* INSERT OR REPLACE INTO transactions: the row with the same primary key goes.
InsertOrReplace(table, row) == (table \ Existing(table, row.id)) \cup {row}

\* An audit tag that ignores is_new.
AuditActionAlwaysUpdate(data) == "UPDATE"

\* 'INSERT' if data.get('is_new') else 'UPDATE'
AuditAction(data) == IF data.is_new THEN "INSERT" ELSE "UPDATE"

AuditEvent(data, clock) ==
    [action |-> AuditAction(data),
     table_name |-> "transactions",
     record_id |-> data.id,
     details |-> [t |-> "json", v |-> data],
     timestamp |-> Timestamp(clock)]

\* __enter__ / connect
Connect ==
    /\ connection = "closed"
    /\ connection' = "open"
    /\ tx' = db
    /\ UNCHANGED <<loaded_count, load_errors, call, batch, load_i, loaded, raised, db, dashboard_json>>

\* __exit__ / close: what was not committed is lost.
Close ==
    /\ connection = "open"
    /\ call = ""
    /\ connection' = "closed"
    /\ tx' = db
    /\ UNCHANGED <<loaded_count, load_errors, call, batch, load_i, loaded, raised, db, dashboard_json>>

\* An except clause that re-raises without self.connection.rollback().
RaiseWithoutRollback(view, committed) == view

\* self.connection.rollback(): the connection sees the committed store again.
Rollback(view, committed) == committed

\* CREATE TABLE IF NOT EXISTS ...; commit(). When a statement or the commit
\* fails (ok is FALSE, a sqlite3.Error): rollback() and raise.
create_tables(ok) ==
    /\ connection = "open"
    /\ call = ""
    /\ IF ok
       THEN /\ tx' = [tx EXCEPT !.tables = TRUE]
            /\ db' = tx'
            /\ raised' = ""
       ELSE /\ tx' = Rollback(tx, db)
            /\ raised' = "sqlite3.Error"
            /\ UNCHANGED db
    /\ UNCHANGED <<connection, loaded_count, load_errors, call, batch, load_i, loaded, dashboard_json>>

\* load_transactions(transactions): entry
LoadBegin(transactions) ==
    /\ connection = "open"
    /\ call = ""
    /\ call' = "load_transactions"
    /\ batch' = transactions
    /\ load_i' = 1
    /\ loaded' = 0
    /\ UNCHANGED <<connection, loaded_count, load_errors, raised, db, tx, dashboard_json>>

\* One turn of the loop of load_transactions. A statement that fails or that
\* the schema rejects is caught, recorded, and the loop goes on: the INSERT OR
\* REPLACE of the row (ok is FALSE), or the INSERT into audit_log that follows
\* loaded_count += 1 (audit_ok is FALSE).
LoadRecord(ok, audit_ok) ==
    /\ call = "load_transactions"
    /\ load_i <= Len(batch)
    /\ LET transaction == batch[load_i]
           data == _prepare_transaction_data(transaction)
           row == RowOf(data)
           write == [row |-> row, absent |-> Existing(tx.transactions, row.id) = {}]
       IN  IF ~ok \/ ~tx.tables \/ ViolatesNotNull(row)
           THEN /\ load_errors' = Append(load_errors, Get(transaction, "id", Str(Txt_unknown)))
                /\ UNCHANGED <<tx, loaded>>
           ELSE IF ~audit_ok
           THEN /\ tx' = [tx EXCEPT !.transactions = InsertOrReplace(@, row),
                                    !.writes = Append(@, write)]
                /\ loaded' = loaded + 1
                /\ load_errors' = Append(load_errors, Get(transaction, "id", Str(Txt_unknown)))
           ELSE /\ tx' = [tx EXCEPT !.transactions = InsertOrReplace(@, row),
                                    !.audit_log = Append(@, AuditEvent(data, now)),
                                    !.writes = Append(@, write)]
                /\ loaded' = loaded + 1
                /\ UNCHANGED load_errors
    /\ load_i' = load_i + 1
    /\ UNCHANGED <<connection, loaded_count, call, batch, raised, db, dashboard_json>>

\* The end of load_transactions: commit and return loaded_count. When the
\* commit fails (ok is FALSE): rollback() and raise.
LoadCommit(ok) ==
    /\ call = "load_transactions"
    /\ load_i > Len(batch)
    /\ IF ok
       THEN /\ db' = tx
            /\ loaded_count' = loaded
            /\ raised' = ""
            /\ UNCHANGED tx
       ELSE /\ tx' = Rollback(tx, db)
            /\ raised' = "sqlite3.Error"
            /\ UNCHANGED <<db, loaded_count>>
    /\ call' = ""
    /\ UNCHANGED <<connection, load_errors, batch, load_i, loaded, dashboard_json>>

RECURSIVE SumAmounts(_)
SumAmounts(rows) ==
    IF rows = {} THEN 0
    ELSE LET r == CHOOSE x \in rows : TRUE
         IN  (IF IsFloat(r.amount) THEN r.amount.v ELSE 0) + SumAmounts(rows \ {r})

\* SELECT column, COUNT(*) FROM transactions GROUP BY column
GroupCount(rows, column) ==
    {[key |-> k, count |-> Cardinality({r \in rows : r[column] = k})] :
        k \in {r[column] : r \in rows}}

\* A percentage as an exact fraction: 100 * part / whole.
Percent(part, whole) == [t |-> "percent", num |-> 100 * part, den |-> whole]

\* The keys of the metrics dict, in the order _calculate_metrics stores them.
METRIC_NAMES ==
    <<"total_transactions", "total_amount", "success_rate", "category_distribution",
      "amount_distribution", "geographic_distribution">>

\* The values of the metrics over the rows the connection sees.
MetricValues(rows) ==
    [total_transactions |-> Cardinality(rows),
     total_amount |-> SumAmounts(rows),
     success_rate |->
        IF rows # {}
        THEN Percent(Cardinality({r \in rows : r.status = Str(<<"s","u","c","c","e","s","s">>)}),
                     Cardinality(rows))
        ELSE Percent(0, 1),
     category_distribution |-> GroupCount(rows, "category"),
     amount_distribution |-> GroupCount(rows, "amount_range"),
     geographic_distribution |-> GroupCount(rows, "geographic_region")]

\* The metrics dict when the first `computed` metrics are stored before a query
\* raises (all of them when none does). The except clause logs the exception
\* and the dict is returned as it is; it is empty when the tables do not exist.
_calculate_metrics(computed) ==
    IF ~tx.tables THEN [k \in {} |-> None]
    ELSE [name \in {METRIC_NAMES[i] : i \in 1..computed} |-> MetricValues(tx.transactions)[name]]

\* INSERT OR REPLACE INTO analytics, for every metric, under UNIQUE(metric_name, date)
UpsertMetrics(table, metrics, date) ==
    {m \in table : ~(m.metric_name \in DOMAIN metrics /\ m.date = date)} \cup
    {[metric_name |-> name, metric_value |-> [t |-> "repr", v |-> metrics[name]], date |-> date] :
        name \in DOMAIN metrics}

\* update_analytics: the metrics dict is written and committed. When an INSERT
\* or the commit fails (ok is FALSE): rollback() and raise.
update_analytics(computed, ok) ==
    /\ connection = "open"
    /\ call = ""
    /\ IF ok
       THEN /\ tx' = [tx EXCEPT !.analytics = UpsertMetrics(@, _calculate_metrics(computed), now)]
            /\ db' = tx'
            /\ raised' = ""
       ELSE /\ tx' = Rollback(tx, db)
            /\ raised' = "sqlite3.Error"
            /\ UNCHANGED db
    /\ UNCHANGED <<connection, loaded_count, load_errors, call, batch, load_i, loaded, dashboard_json>>


\* The characters of a stored date, in code-point order.
OrderedChars == <<" ", "-", "0", "1", "2", "3", "4", "5", "6", "7", "8", "9", ":", "T">>

CharRank(c) ==
    IF \E i \in DOMAIN OrderedChars : OrderedChars[i] = c
    THEN CHOOSE i \in DOMAIN OrderedChars : OrderedChars[i] = c
    ELSE 0

\* a <= b as SQLite compares TEXT
RECURSIVE TextLeq(_, _)
TextLeq(a, b) ==
    IF a = <<>> THEN TRUE
    ELSE IF b = <<>> THEN FALSE
    ELSE IF CharRank(Head(a)) # CharRank(Head(b)) THEN CharRank(Head(a)) < CharRank(Head(b))
    ELSE TextLeq(Tail(a), Tail(b))

\* ORDER BY date: NULL sorts before every text.
DateLeq(r1, r2) ==
    IF ~IsStr(r1.date) THEN TRUE
    ELSE IF ~IsStr(r2.date) THEN FALSE
    ELSE TextLeq(r1.date.v, r2.date.v)

\* LIMIT 100
DASHBOARD_LIMIT == 100

\* The same query with ORDER BY date ASC.
OldestRows(rows, n) ==
    LET size == Cardinality(rows)
        orders == {o \in [1..size -> rows] :
                      /\ \A i, j \in 1..size : i # j => o[i] # o[j]
                      /\ \A i \in 1..(size - 1) : DateLeq(o[i], o[i + 1])}
    IN  {SubSeq(o, 1, IF size < n THEN size ELSE n) : o \in orders}

\* The results SELECT ... ORDER BY date DESC LIMIT n may return: rows with equal
\* dates come in any order.
RecentRows(rows, n) ==
    LET size == Cardinality(rows)
        orders == {o \in [1..size -> rows] :
                      /\ \A i, j \in 1..size : i # j => o[i] # o[j]
                      /\ \A i \in 1..(size - 1) : DateLeq(o[i + 1], o[i])}
    IN  {SubSeq(o, 1, IF size < n THEN size ELSE n) : o \in orders}

Snapshot(sample, clock) ==
    LET metrics == _calculate_metrics(Len(METRIC_NAMES))
        transactions ==
            [i \in DOMAIN sample |->
                [id |-> sample[i].id, date |-> sample[i].date, amount |-> sample[i].amount,
                 category |-> sample[i].category, status |-> sample[i].status,
                 phone |-> sample[i].phone]]
    IN  [summary |->
            [totalTransactions |-> metrics.total_transactions,
             totalAmount |-> metrics.total_amount,
             successRate |-> [t |-> "round1", v |-> metrics.success_rate],
             activeUsers |-> Cardinality({transactions[i].phone : i \in
                                 {j \in DOMAIN transactions : Truthy(transactions[j].phone)}})],
         transactions |-> transactions,
         analytics |->
            [categoryDistribution |-> metrics.category_distribution,
             amountDistribution |-> metrics.amount_distribution,
             geographicData |-> metrics.geographic_distribution],
         exported_at |-> Timestamp(clock),
         export_version |-> Str(Txt_version)]

\* export_dashboard_json: returns False, writing nothing, when the query fails.
export_dashboard_json ==
    /\ connection = "open"
    /\ call = ""
    /\ IF ~tx.tables THEN UNCHANGED dashboard_json
       ELSE \E sample \in RecentRows(tx.transactions, DASHBOARD_LIMIT) :
                dashboard_json' = Snapshot(sample, now)
    /\ UNCHANGED <<connection, loaded_count, load_errors, call, batch, load_i, loaded, raised, db, tx>>

(***************************************************************************)
(* DatabaseLoader used directly: any sequence of its calls on one loader,   *)
(* on a store whose statements fail only when the schema rejects them.     *)
(***************************************************************************)
MaxLoaded == 3

Date_a == <<"2","0","2","4","-","0","1","-","1","5","T","1","4",":","3","0",":","0","0">>
Date_b == <<"2","0","2","4","-","0","1","-","1","6","T","0","9",":","0","0",":","0","0">>

\* A ClassifiedRecord as load_transactions receives it.
Classified(id, date, amount, status) ==
    [id |-> id, date |-> date, amount |-> amount, phone |-> None, message |-> None,
     status |-> status, type |-> Str(Txt_unknown), category |-> Str(Txt_unknown),
     sender |-> None, recipient |-> None, fee |-> None, balance |-> None,
     amount_range |-> Str(Txt_medium), time_category |-> Str(Txt_afternoon),
     risk_level |-> Str(Txt_low), geographic_region |-> Str(Txt_unknown),
     raw_data |-> Str(<<>>), cleaned_at |-> Timestamp(0), cleaning_version |-> Str(Txt_version),
     categorized_at |-> Timestamp(0), categorization_version |-> Str(Txt_version)]

Id_A == Str(<<"T","X","N","0","0","0","0","0","0">>)
Id_B == Str(<<"T","X","N","0","0","0","0","0","1">>)

Rec_A1 == Classified(Id_A, Str(Date_a), Float(150000), Str(<<"s","u","c","c","e","s","s">>))
Rec_A2 == Classified(Id_A, Str(Date_b), Float(250000), Str(Txt_failed))
Rec_B1 == Classified(Id_B, Str(Date_b), Float(0 - 50000), Str(<<"s","u","c","c","e","s","s">>))
\* a dict that is no ClassifiedRecord: its date is None
Rec_A_nodate == Classified(Id_A, None, Float(150000), Str(Txt_pending))

Batches ==
    {<<>>, <<Rec_A1>>, <<Rec_A2>>, <<Rec_B1>>, <<Rec_A_nodate>>,
     <<Rec_A1, Rec_A2>>, <<Rec_A1, Rec_B1>>, <<Rec_B1, Rec_A_nodate>>, <<Rec_A2, Rec_A2>>}

InitStages ==
    /\ parsed_data = <<>> /\ errors = <<>>
    /\ cleaned_data = <<>> /\ cleaning_errors = <<>>
    /\ categorized_data = <<>> /\ categorization_errors = <<>>
    /\ category_stats = <<>>

InitRun ==
    /\ pc = "start" /\ runs = 0 /\ xml_file = None /\ result = None

InitLoader ==
    /\ connection = "closed" /\ loaded_count = 0 /\ load_errors = <<>>
    /\ call = "" /\ batch = <<>> /\ load_i = 1 /\ loaded = 0 /\ raised = ""
    /\ db = EmptyDb /\ tx = EmptyDb /\ dashboard_json = None

InitFn ==
    /\ fn = "" /\ arg = None /\ ret = None /\ ret2 = None

InitLoaderSpec == InitFn /\ now = 0 /\ InitRun /\ InitStages /\ InitLoader

notLoader == <<fnVars, now, runVars, stageVars>>

LoaderConnect == Connect /\ UNCHANGED notLoader

LoaderClose == Close /\ UNCHANGED notLoader

LoaderCreateTables == create_tables(TRUE) /\ UNCHANGED notLoader

LoaderLoadBegin ==
    /\ \E transactions \in Batches :
          /\ Len(tx.writes) + Len(load_errors) + Len(transactions) <= MaxLoaded
          /\ LoadBegin(transactions)
    /\ UNCHANGED notLoader

LoaderLoadRecord == LoadRecord(TRUE, TRUE) /\ UNCHANGED notLoader

LoaderLoadCommit == LoadCommit(TRUE) /\ UNCHANGED notLoader

LoaderUpdateAnalytics == update_analytics(Len(METRIC_NAMES), TRUE) /\ UNCHANGED notLoader

LoaderExport == export_dashboard_json /\ UNCHANGED notLoader

NextLoader ==
    \/ LoaderConnect
    \/ LoaderClose
    \/ LoaderCreateTables
    \/ LoaderLoadBegin
    \/ LoaderLoadRecord
    \/ LoaderLoadCommit
    \/ LoaderUpdateAnalytics
    \/ LoaderExport

SpecLoader == InitLoaderSpec /\ [][NextLoader]_vars


Last(seq) == seq[Len(seq)]

IsPrefix(a, b) == Len(a) <= Len(b) /\ SubSeq(b, 1, Len(a)) = a

\* A ClassifiedRecord has a date and an amount (the NormalizedRecord invariant).
IsClassifiedRecord(transaction) ==
    /\ ~IsNone(Get(transaction, "date", None))
    /\ ~IsNone(Get(transaction, "amount", None))

AuditMatchesWrites(store) ==
    /\ Len(store.audit_log) = Len(store.writes)
    /\ \A i \in DOMAIN store.writes :
          /\ store.audit_log[i].record_id = store.writes[i].row.id
          /\ store.audit_log[i].table_name = "transactions"
          /\ store.audit_log[i].action = (IF store.writes[i].absent THEN "INSERT" ELSE "UPDATE")
    /\ \A r \in store.transactions :
          \E i \in DOMAIN store.writes :
              /\ store.writes[i].row = r
              /\ \A j \in DOMAIN store.writes : j > i => store.writes[j].row.id # r.id

IsMostRecent(sample, rows, n) ==
    /\ Len(sample) = (IF Cardinality(rows) < n THEN Cardinality(rows) ELSE n)
    /\ \A i, j \in DOMAIN sample : i < j => DateLeq(sample[j], sample[i])
    /\ \A r \in rows :
          (\A i \in DOMAIN sample : sample[i].id # r.id) =>
              \A i \in DOMAIN sample : DateLeq(r, sample[i])

Prepare == fn = "" /\ NextLoader

\* arg keeps what the call met: the metrics _calculate_metrics returned, whether
\* the INSERTs and the commit succeeded, and the committed table before the call.
Recompute ==
    /\ fn = ""
    /\ \E computed \in 0..Len(METRIC_NAMES), ok \in BOOLEAN :
          /\ update_analytics(computed, ok)
          /\ arg' = [metrics |-> DOMAIN _calculate_metrics(computed),
                     ok |-> ok,
                     analytics |-> db.analytics]
    /\ fn' = "update_analytics"
    /\ UNCHANGED <<ret, ret2, now, runVars, stageVars>>

NextAnalytics == Prepare \/ Recompute

SpecAnalytics == InitLoaderSpec /\ [][NextAnalytics]_vars

\* A step of the recompute failed: a query of _calculate_metrics, or a write.
RecomputeFailed ==
    /\ fn = "update_analytics"
    /\ (arg.metrics # {METRIC_NAMES[i] : i \in DOMAIN METRIC_NAMES} \/ ~arg.ok)

\* C17: recomputeMetrics is all-or-nothing: if any step of update_analytics
\* fails (computing a metric or writing a metric row) no metric row of the
\* recompute is committed, the analytics table is as it was before the call,
\* and the error is raised to the caller.
C17_RecomputeAllOrNothing ==
    RecomputeFailed => (db.analytics = arg.analytics /\ raised # "")


(***************************************************************************)
(* The stage summaries: get_summary, get_cleaning_summary,                 *)
(* get_categorization_summary, get_loading_summary. A rate is a Float, in  *)
(* hundredths of a percent, truncated.                                     *)
(***************************************************************************)
\* A rate over the failures instead of the successes.
FailureRate(succeeded, failed) ==
    IF succeeded # 0 \/ failed # 0
    THEN Float((failed * 10000) \div (succeeded + failed))
    ELSE Float(0)

\* (succeeded / (succeeded + failed)) * 100 if succeeded or failed else 0
SuccessRate(succeeded, failed) ==
    IF succeeded # 0 \/ failed # 0
    THEN Float((succeeded * 10000) \div (succeeded + failed))
    ELSE Float(0)

get_summary ==
    [total_parsed |-> Len(parsed_data),
     total_errors |-> Len(errors),
     success_rate |-> SuccessRate(Len(parsed_data), Len(errors))]

get_cleaning_summary ==
    [total_cleaned |-> Len(cleaned_data),
     total_errors |-> Len(cleaning_errors),
     success_rate |-> SuccessRate(Len(cleaned_data), Len(cleaning_errors))]

get_categorization_summary ==
    [total_categorized |-> Len(categorized_data),
     total_errors |-> Len(categorization_errors),
     success_rate |-> SuccessRate(Len(categorized_data), Len(categorization_errors)),
     category_distribution |-> category_stats]

get_loading_summary ==
    [total_loaded |-> loaded_count,
     total_errors |-> Len(load_errors),
     success_rate |-> SuccessRate(loaded_count, Len(load_errors))]


(***************************************************************************)
(* run.py: MoMoETLRunner.run_pipeline, stage by stage                      *)
(***************************************************************************)
MaxRuns == 2

Tag_transaction == <<"t","r","a","n","s","a","c","t","i","o","n">>
Tag_root == <<"m","o","m","o","_","t","r","a","n","s","a","c","t","i","o","n","s">>

\* the valid fragment of the end-to-end scenario
Frag_valid ==
    Element(Tag_transaction,
      <<Leaf(<<"d","a","t","e">>,
             Str(<<"2","0","2","4","-","0","1","-","1","5"," ","1","4",":","3","0",":","0","0">>)),
        Leaf(<<"a","m","o","u","n","t">>,
             Str(<<"1","5","0","0",".","0","0">>)),
        Leaf(<<"p","h","o","n","e">>,
             Str(<<"0","2","4","1","2","3","4","5","6","7">>)),
        Leaf(<<"m","e","s","s","a","g","e">>,
             Str(<<"P","a","y","m","e","n","t"," ","r","e","c","e","i","v","e","d"," ","f","o","r"," ","u","t","i","l","i","t","y"," ","b","i","l","l">>)),
        Leaf(<<"s","t","a","t","u","s">>,
             Str(<<"s","u","c","c","e","s","s">>))>>)

\* an OTP notice
Frag_otp ==
    Element(Tag_transaction,
      <<Leaf(<<"d","a","t","e">>,
             Str(<<"2","0","2","4","-","0","1","-","1","5"," ","1","4",":","3","1",":","0","0">>)),
        Leaf(<<"a","m","o","u","n","t">>,
             Str(<<"1","0",".","0","0">>)),
        Leaf(<<"m","e","s","s","a","g","e">>,
             Str(<<"Y","o","u","r"," ","o","n","e","-","t","i","m","e"," ","p","a","s","s","w","o","r","d"," ","i","s"," ","4","7","1","1">>))>>)

\* an amount and no date
Frag_nodate ==
    Element(Tag_transaction,
      <<Leaf(<<"a","m","o","u","n","t">>,
             Str(<<"1","5","0","0",".","0","0">>)),
        Leaf(<<"m","e","s","s","a","g","e">>,
             Str(<<"P","a","y","m","e","n","t"," ","r","e","c","e","i","v","e","d">>))>>)

\* no message, no phone, no type
Frag_nomessage ==
    Element(Tag_transaction,
      <<Leaf(<<"d","a","t","e">>,
             Str(<<"2","0","2","4","-","0","1","-","1","6"," ","0","9",":","0","0",":","0","0">>)),
        Leaf(<<"a","m","o","u","n","t">>,
             Str(<<"2","5","0",".","0","0">>)),
        Leaf(<<"s","t","a","t","u","s">>,
             Str(<<"p","e","n","d","i","n","g">>))>>)

\* an id of its own, equal to the one generated for index 0
Frag_withid ==
    Element(Tag_transaction,
      <<Leaf(<<"i","d">>,
             Str(<<"T","X","N","0","0","0","0","0","0">>)),
        Leaf(<<"d","a","t","e">>,
             Str(<<"2","0","2","4","-","0","1","-","1","6"," ","2","3",":","1","0",":","0","0">>)),
        Leaf(<<"a","m","o","u","n","t">>,
             Str(<<"2","5","0","0",".","0","0">>)),
        Leaf(<<"p","h","o","n","e">>,
             Str(<<"+","2","5","0","7","8","8","1","2","3","4","5","6">>)),
        Leaf(<<"m","e","s","s","a","g","e">>,
             Str(<<"M","o","n","e","y"," ","t","r","a","n","s","f","e","r"," ","c","o","m","p","l","e","t","e","d">>)),
        Leaf(<<"t","y","p","e">>,
             Str(<<"s","e","n","d">>))>>)


\* a date no strategy of the normalizer accepts
Frag_baddate ==
    Element(Tag_transaction,
      <<Leaf(<<"d","a","t","e">>,
             Str(<<"y","e","s","t","e","r","d","a","y">>)),
        Leaf(<<"a","m","o","u","n","t">>,
             Str(<<"1","0","0",".","0","0">>)),
        Leaf(<<"m","e","s","s","a","g","e">>,
             Str(<<"C","a","s","h"," ","d","e","p","o","s","i","t">>))>>)

XmlFile(fragments) ==
    [exists |-> TRUE, well_formed |-> TRUE, root |-> Element(Tag_root, fragments)]

MissingFile == [exists |-> FALSE, well_formed |-> FALSE, root |-> Element(Tag_root, <<>>)]
MalformedFile == [exists |-> TRUE, well_formed |-> FALSE, root |-> Element(Tag_root, <<>>)]

Scenario == XmlFile(<<Frag_valid, Frag_otp>>)

XmlFiles ==
    {MissingFile, MalformedFile, XmlFile(<<>>), Scenario,
     XmlFile(<<Frag_valid>>), XmlFile(<<Frag_otp>>), XmlFile(<<Frag_nodate>>),
     XmlFile(<<Frag_nodate, Frag_valid>>), XmlFile(<<Frag_valid, Frag_nodate>>),
     XmlFile(<<Frag_nomessage>>), XmlFile(<<Frag_nomessage, Frag_valid>>),
     XmlFile(<<Frag_valid, Frag_withid>>), XmlFile(<<Frag_withid, Frag_valid>>),
     XmlFile(<<Frag_baddate, Frag_valid>>)}

\* parse_file after _extract_transactions: the list, or the exception re-raised
Extracted(extracted) ==
    IF extracted.raised
    THEN [raised |-> TRUE, transactions |-> <<>>, error |-> "SyntaxError"]
    ELSE [raised |-> FALSE, transactions |-> extracted.transactions, error |-> ""]

\* [raised, transactions, error] of MoMoXMLParser.parse_file
parse_file(file) ==
    IF ~file.exists
        THEN [raised |-> TRUE, transactions |-> <<>>, error |-> "FileNotFoundError"]
    ELSE IF ~file.well_formed
        THEN [raised |-> TRUE, transactions |-> <<>>, error |-> "ParseError"]
    ELSE Extracted(_extract_transactions(file.root))

\* self.category_stats[categorized.get('category', 'unknown')] += 1, over the output
CategoryStats(records) ==
    [c \in {records[i].category : i \in DOMAIN records} |->
        Cardinality({i \in DOMAIN records : records[i].category = c})]

notRun == <<fnVars, now>>

\* Step 1: _parse_xml, at the start of a run
ParseXml ==
    /\ pc \in {"start", "done"}
    /\ runs < MaxRuns
    /\ \E file \in XmlFiles :
          \E parsed \in {parse_file(file)} :
              /\ xml_file' = file
              /\ parsed_data' = parsed.transactions
              /\ errors' = IF parsed.raised THEN <<parsed.error>> ELSE <<>>
              /\ IF parsed.transactions = <<>>
                 THEN pc' = "done" /\ result' = FALSE
                 ELSE pc' = "parsed" /\ result' = None
    /\ runs' = runs + 1
    /\ cleaned_data' = <<>> /\ cleaning_errors' = <<>>
    /\ categorized_data' = <<>> /\ categorization_errors' = <<>> /\ category_stats' = <<>>
    /\ UNCHANGED <<notRun, loaderVars, dbVars>>

\* Step 2: _clean_data
CleanData ==
    /\ pc = "parsed"
    /\ cleaned_data' = clean_transactions(parsed_data, now)
    /\ cleaning_errors' = <<>>
    /\ IF cleaned_data' = <<>>
       THEN pc' = "done" /\ result' = FALSE
       ELSE pc' = "cleaned" /\ result' = None
    /\ UNCHANGED <<notRun, runs, xml_file, parserVars, categorizerVars, loaderVars, dbVars>>

\* Step 3: _categorize_data
CategorizeData ==
    /\ pc = "cleaned"
    /\ categorized_data' = categorize_transactions(cleaned_data, now)
    /\ categorization_errors' = <<>>
    /\ category_stats' = CategoryStats(categorized_data')
    /\ IF categorized_data' = <<>>
       THEN pc' = "done" /\ result' = FALSE
       ELSE pc' = "categorized" /\ result' = None
    /\ UNCHANGED <<notRun, runs, xml_file, parserVars, cleanerVars, loaderVars, dbVars>>

runFrame == <<notRun, runs, xml_file, result, stageVars>>

\* Step 4: _load_to_database: with DatabaseLoader(self.db_path) as loader
DbEnter ==
    /\ pc = "categorized"
    /\ connection = "closed"
    /\ connection' = "open"
    /\ tx' = db
    /\ loaded_count' = 0
    /\ load_errors' = <<>>
    /\ raised' = ""
    /\ pc' = "db_open"
    /\ UNCHANGED <<call, batch, load_i, loaded, db, dashboard_json, runFrame>>

\* The position after a loader call: the with block goes on, or the exception
\* leaves it.
AfterCall(next) == IF raised' = "" THEN next ELSE "db_raised"

\* A call of the scope may raise a sqlite3.Error, and a statement of the loop
\* of load_transactions may fail.
DbCreateTables ==
    /\ pc = "db_open"
    /\ \E ok \in BOOLEAN : create_tables(ok)
    /\ pc' = AfterCall("db_ready")
    /\ UNCHANGED runFrame

DbLoadBegin ==
    /\ pc = "db_ready"
    /\ LoadBegin(categorized_data)
    /\ pc' = "db_loading"
    /\ UNCHANGED runFrame

DbLoadRecord ==
    /\ pc = "db_loading"
    /\ \E ok \in BOOLEAN : LoadRecord(ok, TRUE)
    /\ UNCHANGED <<pc, runFrame>>

DbLoadCommit ==
    /\ pc = "db_loading"
    /\ \E ok \in BOOLEAN : LoadCommit(ok)
    /\ pc' = AfterCall("db_loaded")
    /\ UNCHANGED runFrame

DbUpdateAnalytics ==
    /\ pc = "db_loaded"
    /\ \E ok \in BOOLEAN : update_analytics(Len(METRIC_NAMES), ok)
    /\ pc' = AfterCall("db_analytics")
    /\ UNCHANGED runFrame

\* __exit__ at the end of the with block; _load_to_database returns True
DbExit ==
    /\ pc = "db_analytics"
    /\ Close
    /\ pc' = "loaded"
    /\ UNCHANGED runFrame

\* __exit__ on the way of an exception: _load_to_database catches it and
\* returns False, and so does run_pipeline
DbExitRaised ==
    /\ pc = "db_raised"
    /\ Close
    /\ pc' = "done"
    /\ result' = FALSE
    /\ UNCHANGED <<notRun, runs, xml_file, stageVars>>

\* Step 5: _export_dashboard_data: with DatabaseLoader(self.db_path) as loader
ExportEnter ==
    /\ pc = "loaded"
    /\ connection = "closed"
    /\ connection' = "open"
    /\ tx' = db
    /\ loaded_count' = 0
    /\ load_errors' = <<>>
    /\ pc' = "export_open"
    /\ UNCHANGED <<call, batch, load_i, loaded, raised, db, dashboard_json, runFrame>>

ExportJson ==
    /\ pc = "export_open"
    /\ export_dashboard_json
    /\ pc' = "exported"
    /\ UNCHANGED runFrame

\* the with block ends and run_pipeline returns True
ExportExit ==
    /\ pc = "exported"
    /\ Close
    /\ pc' = "done"
    /\ result' = TRUE
    /\ UNCHANGED <<notRun, runs, xml_file, stageVars>>

Init == InitFn /\ now = 0 /\ InitRun /\ InitStages /\ InitLoader

Next ==
    \/ ParseXml
    \/ CleanData
    \/ CategorizeData
    \/ DbEnter
    \/ DbCreateTables
    \/ DbLoadBegin
    \/ DbLoadRecord
    \/ DbLoadCommit
    \/ DbUpdateAnalytics
    \/ DbExit
    \/ DbExitRaised
    \/ ExportEnter
    \/ ExportJson
    \/ ExportExit

Spec == Init /\ [][Next]_vars


(***************************************************************************)
(* Claims about the pipeline                                               *)
(***************************************************************************)
Phone_233241234567 == <<"+","2","3","3","2","4","1","2","3","4","5","6","7">>

afterCategorize ==
    {"categorized", "db_open", "db_ready", "db_loading", "db_loaded", "db_analytics",
     "loaded", "export_open", "exported"}

\* C4: for one valid fragment (date 2024-01-15 14:30:00, amount 1500.00, phone
\* 0241234567, message "Payment received for utility bill", status success) and
\* one fragment whose message contains "one-time password", the run yields exactly
\* one classified record with category payment, phone +233241234567,
\* time_category afternoon and risk_level low.
C4_ScenarioYieldsOnePaymentRecord ==
    (xml_file = Scenario /\ pc \in afterCategorize) =>
        /\ Len(categorized_data) = 1
        /\ categorized_data[1].category = Str(Txt_payment)
        /\ categorized_data[1].phone = Str(Phone_233241234567)
        /\ categorized_data[1].time_category = Str(Txt_afternoon)
        /\ categorized_data[1].risk_level = Str(Txt_low)

\* The fragment a record or a row was extracted from has an amount and no date.
AmountWithoutDate(elem) ==
    /\ ~IsNone(_extract_amount(elem, AMOUNT_FIELDS))
    /\ IsNone(_extract_text(elem, DATE_FIELDS))

FromAmountWithoutDate(records) ==
    \E i \in DOMAIN records : AmountWithoutDate(records[i].raw_data.v)

RowFromAmountWithoutDate(rows) ==
    \E row \in rows : AmountWithoutDate(row.raw_data.v)

\* C5: a fragment that has an amount and no date never results in a row of the
\* transaction store: it is absent from the output of the stage that rejects it
\* (the extractor) and from the output of every later stage.
C5_AmountWithoutDateNeverStored ==
    /\ ~FromAmountWithoutDate(parsed_data)
    /\ ~FromAmountWithoutDate(cleaned_data)
    /\ ~FromAmountWithoutDate(categorized_data)
    /\ ~FromAmountWithoutDate(batch)
    /\ ~RowFromAmountWithoutDate(tx.transactions)
    /\ ~RowFromAmountWithoutDate(db.transactions)

\* A run over a file with such a fragment next to a valid one has finished and
\* stored the valid one.
C5_Witness ==
    /\ pc = "done"
    /\ result = TRUE
    /\ \E i \in DOMAIN xml_file.root.children : AmountWithoutDate(xml_file.root.children[i])
    /\ db.transactions # {}

\* C6: the classifier is total: the classified list is as long as the
\* normalized list it was given.
C6_ClassifierIsTotal ==
    pc \in afterCategorize \cup {"done"} => Len(categorized_data) = Len(cleaned_data)


\* The number of elements the extractor drops for missing required fields.
DroppedByExtractor(root) ==
    Cardinality({i \in DOMAIN SelectElements(root, SELECTOR_TAGS) :
                    IsNone(_parse_transaction_element(SelectElements(root, SELECTOR_TAGS)[i], i - 1))})

\* C13: at the extractor and at the normalizer, every record dropped because it
\* fails the required-fields check adds one entry to the stage's error list, so
\* the stage's error count equals the number of records it dropped for failure.
C13_DroppedRecordsAreCounted ==
    /\ pc = "parsed" => Len(errors) = DroppedByExtractor(xml_file.root)
    /\ pc = "cleaned" => Len(cleaning_errors) = Len(parsed_data) - Len(cleaned_data)


\* rate is succeeded / (succeeded + failed) x 100 to the precision of the
\* model, 0 when both are zero, and lies between 0 and 100.
IsRateOf(rate, succeeded, failed) ==
    /\ IsFloat(rate)
    /\ 0 <= rate.v /\ rate.v <= 10000
    /\ IF succeeded + failed = 0 THEN rate.v = 0
       ELSE /\ rate.v * (succeeded + failed) <= succeeded * 10000
            /\ succeeded * 10000 < (rate.v + 1) * (succeeded + failed)

\* C14: each stage's summary reports success_rate = succeeded / (succeeded +
\* failed) x 100, succeeded being the number of records in the stage's output
\* and failed the length of its error list, 0 when both are zero; the value is
\* always between 0 and 100.
C14_SuccessRateFormula ==
    /\ IsRateOf(get_summary.success_rate, Len(parsed_data), Len(errors))
    /\ IsRateOf(get_cleaning_summary.success_rate, Len(cleaned_data), Len(cleaning_errors))
    /\ IsRateOf(get_categorization_summary.success_rate,
                Len(categorized_data), Len(categorization_errors))
    /\ IsRateOf(get_loading_summary.success_rate, loaded_count, Len(load_errors))

\* A batch has been loaded with some records written and some failed.
C14_Witness ==
    /\ call = ""
    /\ loaded_count > 0
    /\ load_errors # <<>>
    /\ get_loading_summary.success_rate.v \in 1..9999
    /\ get_summary.success_rate = Float(0)

\* C15: parse_file raises if and only if the input file does not exist or is
\* not well-formed XML; for every well-formed document, one with no
\* transaction-like fragment included, it returns a list without raising.
C15_ParseFileRaisesOnlyOnBadFile ==
    xml_file # None =>
        /\ parse_file(xml_file).raised <=> (~xml_file.exists \/ ~xml_file.well_formed)
        /\ errors # <<>> <=> (~xml_file.exists \/ ~xml_file.well_formed)


\* C16: run_pipeline reports success if and only if each of the four stages
\* (extraction, normalization, classification, persistence) produced at least
\* one record and persistence raised no error; in every other case it reports
\* failure. At "loaded" _load_to_database has returned True and the run goes on
\* to report success.
C16_SuccessIffEveryStageProduced ==
    /\ (pc = "loaded" \/ (pc = "done" /\ result = TRUE)) =>
          /\ parsed_data # <<>>
          /\ cleaned_data # <<>>
          /\ categorized_data # <<>>
          /\ raised = ""
    /\ pc = "loaded" => loaded_count >= 1
    /\ (pc = "done" /\ result = FALSE) =>
          \/ parsed_data = <<>>
          \/ cleaned_data = <<>>
          \/ categorized_data = <<>>
          \/ loaded_count = 0
          \/ raised # ""

\* The positions of run_pipeline outside the with blocks.
outsideScope == {"start", "parsed", "cleaned", "categorized", "loaded", "done"}

\* C19: on every exit path of a DatabaseLoader scope of the pipeline (normal
\* return, per-record failure, an exception raised by create_tables,
\* load_transactions or update_analytics) the connection ends closed, and every
\* write made in the scope has been committed or rolled back by the time it is
\* closed.
C19_ScopeReleasesConnection ==
    /\ [](pc \in outsideScope => (connection = "closed" /\ call = "" /\ tx = db))
    /\ [][(connection = "open" /\ connection' = "closed") => tx = db]_vars

\* A scope left by an exception after a record of the batch had failed and
\* another had been written.
C19_Witness ==
    /\ pc = "done"
    /\ result = FALSE
    /\ raised # ""
    /\ connection = "closed"
    /\ load_errors # <<>>
    /\ loaded >= 1

(***************************************************************************)
(* Pure-function harness: a function of the pipeline applied to an input   *)
(* drawn from a finite set, once and, where a claim compares two           *)
(* applications, a second time.                                            *)
(***************************************************************************)
MaxClock == 2

notFn == <<runVars, stageVars, loaderVars, dbVars>>

Tick ==
    /\ now < MaxClock
    /\ now' = now + 1
    /\ UNCHANGED <<fnVars, notFn>>

\* ---- the normalizer on one raw record ------------------------------------
\* A dict as the extractor builds it: every key present, the value None when
\* the fragment has no such field.
Raw(date, amount, phone, message, status, type) ==
    [id |-> Str(<<"T","X","N","0","0","0","0","0","0">>), date |-> date, amount |-> amount, phone |-> phone,
     message |-> message, status |-> status, sender |-> None, recipient |-> None,
     type |-> type, fee |-> None, balance |-> None, raw_data |-> Str(<<>>)]

RawDates ==
    {None, Str(<<>>), Str(<<"2","0","2","4","-","0","1","-","1","5"," ","1","4",":","3","0",":","0","0">>), Str(<<"2","0","2","4","-","0","1","-","1","5">>),
     Str(<<"1","5"," ","J","a","n"," ","2","0","2","4">>), Str(<<"2","0","2","4","-","0","1","-","1","5"," ","a","r","o","u","n","d"," ","n","o","o","n">>)}

RawAmounts ==
    {None, Float(0), Float(150000), Float(0 - 50000), Float(6000000),
     Str(<<"1",",","5","0","0",".","0","0">>), Str(<<"0">>), Str(<<"a","b","c">>)}

RawPhones == {None, Str(<<"0","7","8","8","1","2","3","4","5","6">>)}

RawMessages == {None, Str(<<"P","a","y","m","e","n","t"," ","r","e","c","e","i","v","e","d"," ","f","o","r"," ","u","t","i","l","i","t","y"," ","b","i","l","l">>)}

RawRecords ==
    {Raw(date, amount, phone, message, Str(<<"s","u","c","c","e","s","s">>), None) :
        date \in RawDates, amount \in RawAmounts, phone \in RawPhones, message \in RawMessages}

InitClean ==
    /\ fn = ""
    /\ arg \in RawRecords
    /\ ret = None
    /\ ret2 = None
    /\ now = 0
    /\ InitRun /\ InitStages /\ InitLoader

CleanSingleTransaction ==
    /\ fn = ""
    /\ fn' = "_clean_single_transaction"
    /\ ret' = _clean_single_transaction(arg, now)
    /\ UNCHANGED <<arg, ret2, now, notFn>>

NextClean == CleanSingleTransaction \/ Tick

SpecClean == InitClean /\ [][NextClean]_vars

\* A raw record whose date is text one of the date strategies accepts and whose
\* amount is a number or text that reads as one.
ValidRawRecord(transaction) ==
    /\ ~IsNone(transaction.date) /\ ~IsNone(_normalize_date(transaction.date))
    /\ ~IsNone(transaction.amount) /\ ~IsNone(_normalize_amount(transaction.amount))

\* C3: _clean_single_transaction returns a non-null record for every valid raw
\* record whose date and amount are both non-null, an amount equal to zero
\* included, and null for every raw record with a null date or a null amount.
C3_NonNullDateAndAmountAreKept ==
    fn = "_clean_single_transaction" =>
        /\ ValidRawRecord(arg) => ~IsNone(ret)
        /\ (IsNone(arg.date) \/ IsNone(arg.amount)) => IsNone(ret)

\* ---- the classifier on a list of normalized records -----------------------
MaxBatch == 2

ClassifierRaws ==
    {Raw(Str(<<"2","0","2","4","-","0","1","-","1","5"," ","1","4",":","3","0",":","0","0">>), Float(150000), Str(<<"0","7","8","8","1","2","3","4","5","6">>), Str(<<"P","a","y","m","e","n","t"," ","r","e","c","e","i","v","e","d"," ","f","o","r"," ","u","t","i","l","i","t","y"," ","b","i","l","l">>), Str(<<"s","u","c","c","e","s","s">>), None),
     Raw(Str(<<"2","0","2","4","-","0","1","-","1","6"," ","0","9",":","0","0",":","0","0">>), Float(25000), None, None, Str(<<"p","e","n","d","i","n","g">>), None),
     Raw(Str(<<"2","0","2","4","-","0","1","-","1","6","T","2","3",":","1","0",":","0","0">>), Float(6000000), Str(<<"+","2","5","0","1","2","3","4","5","6","7","8","9">>), Str(<<"M","o","n","e","y"," ","t","r","a","n","s","f","e","r"," ","c","o","m","p","l","e","t","e","d">>), Str(<<"f","a","i","l","e","d">>), Str(<<"s","e","n","d">>)),
     Raw(Str(<<"2","0","2","4","-","0","1","-","1","5">>), Float(1200000), Str(<<"0","2","4","1","2","3","4","5","6","7">>), Str(<<"Y","o","u"," ","h","a","v","e"," ","r","e","c","e","i","v","e","d"," ","1","2","0","0","0"," ","R","W","F"," ","f","r","o","m"," ","J","a","n","e">>), Str(<<"s","u","c","c","e","s","s">>), None),
     Raw(Str(<<"2","0","2","4","-","0","1","-","1","7"," ","1","8",":","0","5",":","0","0">>), Float(80000), None, Str(<<"R","e","f","u","n","d"," ","i","s","s","u","e","d">>), Str(<<"s","u","c","c","e","s","s">>), Str(<<"R","e","f","u","n","d">>))}

\* What the normalizer emits for them.
NormalizedRecords ==
    {_clean_single_transaction(raw, 0) : raw \in ClassifierRaws} \ {None}

RECURSIVE Reverse(_)
Reverse(s) == IF s = <<>> THEN <<>> ELSE Append(Reverse(Tail(s)), Head(s))

InitClassify ==
    /\ fn = ""
    /\ \E n \in 1..MaxBatch : arg \in [1..n -> NormalizedRecords]
    /\ ret = None
    /\ ret2 = None
    /\ now = 0
    /\ InitRun /\ InitStages /\ InitLoader

CategorizeTransactions ==
    /\ fn = ""
    /\ fn' = "categorize_transactions"
    /\ ret' = categorize_transactions(arg, now)
    /\ UNCHANGED <<arg, ret2, now, notFn>>

\* A second categorizer over the same list.
CategorizeTransactionsAgain ==
    /\ fn = "categorize_transactions"
    /\ fn' = "categorize_transactions twice"
    /\ ret2' = categorize_transactions(arg, now)
    /\ UNCHANGED <<arg, ret, now, notFn>>

\* A second categorizer over the same records in the opposite order; ret2 is
\* put back in the order of arg.
CategorizeTransactionsReversed ==
    /\ fn = "categorize_transactions"
    /\ fn' = "categorize_transactions reversed"
    /\ ret2' = Reverse(categorize_transactions(Reverse(arg), now))
    /\ UNCHANGED <<arg, ret, now, notFn>>

NextClassify ==
    \/ CategorizeTransactions
    \/ CategorizeTransactionsAgain
    \/ CategorizeTransactionsReversed
    \/ Tick

SpecClassify == InitClassify /\ [][NextClassify]_vars

secondCall == {"categorize_transactions twice", "categorize_transactions reversed"}

SameButCategorizedAt(a, b) ==
    /\ DOMAIN a = DOMAIN b
    /\ \A k \in DOMAIN a \ {"categorized_at"} : a[k] = b[k]

CATEGORY_VOCABULARY ==
    {Str(Txt_payment), Str(Txt_transfer), Str(Txt_withdrawal), Str(Txt_deposit), Str(Txt_unknown)}

\* C12: every classified record has a category in {payment, transfer,
\* withdrawal, deposit, unknown}, also when the record arrives with a type other
\* than "unknown" that the normalizer passed through unchanged.
C12_CategoryInClosedSet ==
    fn = "categorize_transactions" =>
        \A i \in DOMAIN ret : ret[i].category \in CATEGORY_VOCABULARY


\* The phone is in the form the Normalizer produces: the configured dial code
\* and digits after it.
InCountryCodeForm(phone) ==
    /\ IsStr(phone)
    /\ StartsWith(phone.v, COUNTRY_DIAL_CODE)
    /\ Len(phone.v) >= Len(COUNTRY_DIAL_CODE) + 2

\* C24: for every NormalizedRecord whose phone is in the configured
\* country-code form the Normalizer produces, geographic_region is the region
\* the area-code table gives for the two digits after the country code, or
\* "Other" when the table has none; it is "unknown" only when the phone is
\* absent or not in country-code form.
C24_RegionFromAreaCode ==
    fn = "categorize_transactions" =>
        \A i \in DOMAIN ret :
            IF InCountryCodeForm(ret[i].phone)
            THEN ret[i].geographic_region =
                    Str(RegionOf(SubSeq(ret[i].phone.v, Len(COUNTRY_DIAL_CODE) + 1,
                                        Len(COUNTRY_DIAL_CODE) + 2)))
            ELSE ret[i].geographic_region = Str(Txt_unknown)

\* ---- the text fields of a record ---

MaxText == 3

TextChars == {"a", " ", "\t", "<SOH>", "<NBSP>", "<DIAERESIS>"}

TextInputs ==
    {None} \cup {Str(s) : s \in UNION {[1..n -> TextChars] : n \in 0..MaxText}}

InitText ==
    /\ fn = ""
    /\ arg \in TextInputs
    /\ ret = None
    /\ ret2 = None
    /\ now = 0
    /\ InitRun /\ InitStages /\ InitLoader

NormalizeMessage ==
    /\ fn = ""
    /\ fn' = "_normalize_message"
    /\ ret' = _normalize_message(arg)
    /\ UNCHANGED <<arg, ret2, now, notFn>>

NormalizeSender ==
    /\ fn = ""
    /\ fn' = "_normalize_sender"
    /\ ret' = _normalize_sender(arg)
    /\ UNCHANGED <<arg, ret2, now, notFn>>

NormalizeRecipient ==
    /\ fn = ""
    /\ fn' = "_normalize_recipient"
    /\ ret' = _normalize_recipient(arg)
    /\ UNCHANGED <<arg, ret2, now, notFn>>

NextText == NormalizeMessage \/ NormalizeSender \/ NormalizeRecipient

SpecText == InitText /\ [][NextText]_vars

\* A non-empty text without a control character, without two whitespace
\* characters in a row and without whitespace at either end.
IsTidyText(s) ==
    /\ s # <<>>
    /\ \A i \in DOMAIN s : s[i] \notin ControlChars
    /\ \A i \in 1..(Len(s) - 1) : ~(s[i] \in Whitespace /\ s[i + 1] \in Whitespace)
    /\ s[1] \notin Whitespace
    /\ s[Len(s)] \notin Whitespace

\* C25: the Normalizer's result for message, sender and recipient is null or
\* a non-empty string with no control character, no run of two or more
\* whitespace characters and no leading or trailing whitespace; an input that
\* reduces to the empty string yields null.
C25_TextFieldsAreTidy ==
    fn \in {"_normalize_message", "_normalize_sender", "_normalize_recipient"} =>
        \/ ret = None
        \/ IsStr(ret) /\ IsTidyText(ret.v)

\* ---- the records a stage is given ---

\* The record agrees with the input record on every field of the input.
AgreesWith(record, input) ==
    /\ DOMAIN input \subseteq DOMAIN record
    /\ \A k \in DOMAIN input : record[k] = input[k]

C28_IdsOfOneExtractionDistinct ==
    \A i, j \in DOMAIN parsed_data :
        i # j => parsed_data[i].id # parsed_data[j].id

\* ---- the account of one load ---

\* load_transactions is entered; arg keeps the length of load_errors the call
\* met.
LoadTransactionsBegin ==
    /\ \E transactions \in Batches :
          /\ Len(tx.writes) + Len(load_errors) + Len(transactions) <= MaxLoaded
          /\ LoadBegin(transactions)
    /\ fn' = "load_transactions"
    /\ arg' = [load_errors |-> Len(load_errors)]
    /\ UNCHANGED <<ret, ret2, now, runVars, stageVars>>

\* A turn of the loop in which either statement may fail.
LoadTransactionsRecord ==
    /\ \E ok, audit_ok \in BOOLEAN : LoadRecord(ok, audit_ok)
    /\ UNCHANGED notLoader

NextLoad ==
    \/ LoaderConnect
    \/ LoaderClose
    \/ LoaderCreateTables
    \/ LoadTransactionsBegin
    \/ LoadTransactionsRecord
    \/ LoaderLoadCommit

SpecLoad == InitLoaderSpec /\ [][NextLoad]_vars

\* C29: when load_transactions returns after processing n records, the
\* returned loaded count plus the number of entries it added to load_errors
\* equals n, and no record reported in load_errors has had its row inserted
\* or replaced in the committed transactions table: the rows the call wrote
\* are those of the records it did not report.
C29_EveryRecordAccountedOnce ==
    [][(call = "load_transactions" /\ call' = "" /\ raised' = "") =>
            LET added == Len(load_errors') - arg.load_errors
            IN  /\ loaded_count' + added = Len(batch)
                /\ (Len(db'.writes) - Len(db.writes)) + added = Len(batch)]_vars

\* ---- the store after a failed run ---

\* The positions of run_pipeline before the persistence stage and after the
\* run.
BeforePersistence == {"start", "done", "parsed", "cleaned"}

\* C30: whenever run_pipeline reports failure, the transactions table holds
\* exactly the rows it held before the run: no store write happens before
\* extraction, normalization and classification have each completed with a
\* non-empty output, and a failure in the persistence stage (a failure of
\* update_analytics after load_transactions included) leaves no record of
\* this run committed. The first run starts on the empty store, so the rows
\* before it are none.
C30_FailedRunLeavesStoreAsBefore ==
    [][/\ pc \in BeforePersistence => db' = db
       /\ (runs' = 1 /\ pc' = "done" /\ result' = FALSE) =>
                db'.transactions = EmptyDb.transactions]_vars

\* ---- the category of a record of unknown type ---
CategoryMessages ==
    {<<>>, <<"t","o","p","u","p">>, <<"a","t","m">>, <<"a","t","m"," ","c","a","s","h","o","u","t">>,
     <<"p","a","y">>, <<"m","o","n","e","y"," ","t","r","a","n","s","f","e","r">>}

CategoryPhones ==
    {None, Str(<<"+","2","3","3","2","4","1","2","3","4","5","6","7">>),
     Str(<<"+","2","5","0","7","8","8","1","2","3","4","5","6">>)}

CategoryAmounts == {None, Float(Units(500)), Float(Units(5000)), Float(Units(20000))}

CategoryInputs ==
    {[type |-> Str(Txt_unknown), message |-> Str(message), phone |-> phone, amount |-> amount] :
        message \in CategoryMessages, phone \in CategoryPhones, amount \in CategoryAmounts}

InitCategory ==
    /\ fn = ""
    /\ arg \in CategoryInputs
    /\ ret = None
    /\ ret2 = None
    /\ now = 0
    /\ InitRun /\ InitStages /\ InitLoader

DetermineCategory ==
    /\ fn = ""
    /\ fn' = "_determine_category"
    /\ ret' = _determine_category(arg)
    /\ UNCHANGED <<arg, ret2, now, notFn>>

NextCategory == DetermineCategory

SpecCategory == InitCategory /\ [][NextCategory]_vars

\* The total score of the i-th category of the table: keyword matches, 2 for a
\* merchant phone on payment, 1 for a small amount on deposit and for a large
\* one on transfer.
TotalScore(transaction, i) ==
    KeywordHits(TRANSACTION_CATEGORIES[i].keywords, Lower(transaction.message.v))
    + (IF TRANSACTION_CATEGORIES[i].category = Txt_payment /\ _is_merchant_phone(transaction.phone)
       THEN 2 ELSE 0)
    + (IF /\ TRANSACTION_CATEGORIES[i].category = Txt_deposit
          /\ Truthy(transaction.amount)
          /\ transaction.amount.v < Units(AMOUNT_THRESHOLDS.small)
       THEN 1 ELSE 0)
    + (IF /\ TRANSACTION_CATEGORIES[i].category = Txt_transfer
          /\ Truthy(transaction.amount)
          /\ transaction.amount.v > Units(AMOUNT_THRESHOLDS.large)
       THEN 1 ELSE 0)

\* The first category of the table among those with the highest total score.
FirstTopCategory(transaction) ==
    LET order == DOMAIN TRANSACTION_CATEGORIES
        top == {i \in order : \A j \in order : TotalScore(transaction, j) <= TotalScore(transaction, i)}
    IN  TRANSACTION_CATEGORIES[Min(top)].category

\* C22: for a record whose type is "unknown" the Classifier returns the category
\* with the highest total score; among several with the highest score the first
\* in the order of the category table (payment, transfer, withdrawal, deposit)
\* wins, and when every score is zero the result is "unknown".
C22_HighestScoreTableOrder ==
    fn = "_determine_category" =>
        ret = IF \A i \in DOMAIN TRANSACTION_CATEGORIES : TotalScore(arg, i) = 0
              THEN Str(Txt_unknown)
              ELSE Str(FirstTopCategory(arg))

\* ---- the risk level of a record ---
RiskAmounts ==
    {Float(Units(100)), Float(Units(5000)), Float(Units(5000) + 1), Float(Units(10000)),
     Float(Units(20000)), Float(Units(50000)), Float(Units(60000))}

\* an afternoon, a night and a date without a time
RiskDates ==
    {Str(<<"2","0","2","4","-","0","1","-","1","5","T","1","4",":","3","0",":","0","0">>), Str(<<"2","0","2","4","-","0","1","-","1","6","T","2","3",":","1","0",":","0","0">>), Str(<<"2","0","2","4","-","0","1","-","1","5">>)}

RiskStatuses == {Str(<<"s","u","c","c","e","s","s">>), Str(Txt_failed), Str(Txt_pending)}

RiskPhones ==
    {None,
     Str(<<"+","2","5","0","7","8","8","1","2","3","4","5","6">>),
     Str(<<"+","2","5","0","0","0","0","0","0","0","0","0","0">>),
     Str(<<"+","2","5","0","1","1","1","1","1","1","1","1","1">>),
     Str(<<"+","2","5","0","7","7","7","7","7","7","7","7","7">>),
     Str(<<"+","2","5","0","1","2","3","4","5","6","7","8","9">>),
     Str(<<"+","2","5","0","9","8","7","6","5","4","3","2","1">>)}

RiskInputs ==
    {[amount |-> amount, date |-> date, status |-> status, phone |-> phone] :
        amount \in RiskAmounts, date \in RiskDates, status \in RiskStatuses, phone \in RiskPhones}

InitRisk ==
    /\ fn = ""
    /\ arg \in RiskInputs
    /\ ret = None
    /\ ret2 = None
    /\ now = 0
    /\ InitRun /\ InitStages /\ InitLoader

AssessRiskLevel ==
    /\ fn = ""
    /\ fn' = "_assess_risk_level"
    /\ ret' = _assess_risk_level(arg)
    /\ UNCHANGED <<arg, ret2, now, notFn>>

NextRisk == AssessRiskLevel

SpecRisk == InitRisk /\ [][NextRisk]_vars

\* Nine times the same digit, or the digits 1 to 9 ascending or descending,
\* somewhere in the phone.
IsSuspiciousRun(run) ==
    \/ \A i \in DOMAIN run : run[i] \in Digits /\ run[i] = run[1]
    \/ run = <<"1","2","3","4","5","6","7","8","9">>
    \/ run = <<"9","8","7","6","5","4","3","2","1">>

HoldsSuspiciousRun(phone) ==
    /\ IsStr(phone)
    /\ \E i \in 1..(Len(phone.v) - 8) : IsSuspiciousRun(SubSeq(phone.v, i, i + 8))

\* The additive score: the cutoffs of the amount are 5000, 10000 and 50000.
RiskPoints(transaction) ==
    (IF transaction.amount.v > Units(50000) THEN 3
     ELSE IF transaction.amount.v > Units(10000) THEN 2
     ELSE IF transaction.amount.v > Units(5000) THEN 1
     ELSE 0)
    + (IF _categorize_time(transaction.date) = Str(Txt_night) THEN 1 ELSE 0)
    + (IF transaction.status \in {Str(Txt_failed), Str(Txt_pending)} THEN 1 ELSE 0)
    + (IF HoldsSuspiciousRun(transaction.phone) THEN 2 ELSE 0)

\* C23: the risk level is high when the additive score is at least 4, medium
\* when it is 2 or 3, low otherwise; the score is 1, 2 or 3 for the amount
\* exceeding the first, second or third cutoff, plus 1 for a night-time date,
\* plus 1 for status failed or pending, plus 2 for a phone with a suspicious
\* pattern: every run of nine equal digits, and the ascending and descending
\* digit sequences.
C23_RiskLevelFromScore ==
    fn = "_assess_risk_level" =>
        ret = IF RiskPoints(arg) >= 4 THEN Str(Txt_high)
              ELSE IF RiskPoints(arg) >= 2 THEN Str(Txt_medium)
              ELSE Str(Txt_low)

\* ---- OTP and verification notices ---
UpperChar(c) ==
    IF \E i \in DOMAIN LowerCase : LowerCase[i] = c
    THEN UpperCase[CHOOSE i \in DOMAIN LowerCase : LowerCase[i] = c]
    ELSE c

Upper(s) == [i \in DOMAIN s |-> UpperChar(s[i])]

\* Each keyword as it is, in capitals, and capitalised, alone and inside a sentence.
NoticeTexts ==
    UNION {{k, Upper(k), <<UpperChar(Head(k))>> \o Tail(k),
            <<"Y","o","u","r"," ">> \o k \o <<" ","4","7","1","1">>,
            <<"Y","O","U","R"," ">> \o Upper(k) \o <<" ","4","7","1","1">>} :
                k \in {otp_keywords[i] : i \in DOMAIN otp_keywords}}

\* Messages of transactions: none of them holds a keyword.
PlainTexts ==
    {<<"P","a","y","m","e","n","t"," ","r","e","c","e","i","v","e","d">>,
     <<"T","o","p"," ","u","p"," ","o","f"," ","5","0","0">>,
     <<"C","a","s","h"," ","d","e","p","o","s","i","t">>}

\* A fragment with an amount, the text under one of the message names, and a
\* date or none.
NoticeFragment(field, text, dated) ==
    Element(Tag_transaction,
      (IF dated
       THEN <<Leaf(<<"d","a","t","e">>,
                   Str(<<"2","0","2","4","-","0","1","-","1","5"," ","1","4",":","3","1",":","0","0">>))>>
       ELSE <<>>)
      \o <<Leaf(<<"a","m","o","u","n","t">>, Str(<<"1","0",".","0","0">>)),
           Leaf(field, Str(text))>>)

NoticeInputs ==
    {[text |-> text,
      fragment |-> NoticeFragment(field, text, dated),
      file |-> XmlFile(IF first THEN <<NoticeFragment(field, text, dated), Frag_valid>>
                       ELSE <<Frag_valid, NoticeFragment(field, text, dated)>>)] :
        text \in NoticeTexts \cup PlainTexts,
        field \in {MESSAGE_FIELDS[i] : i \in DOMAIN MESSAGE_FIELDS},
        dated \in BOOLEAN,
        first \in BOOLEAN}

InitNotice ==
    /\ fn = ""
    /\ arg \in NoticeInputs
    /\ ret = None
    /\ ret2 = None
    /\ now = 0
    /\ InitRun /\ InitStages /\ InitLoader

\* parse_file on a parser of its own: self.parsed_data and self.errors
ParseFile ==
    /\ fn = ""
    /\ fn' = "parse_file"
    /\ \E parsed \in {parse_file(arg.file)} :
          /\ ret' = parsed
          /\ parsed_data' = parsed.transactions
          /\ errors' = IF parsed.raised THEN <<parsed.error>> ELSE <<>>
    /\ UNCHANGED <<arg, ret2, now, runVars, cleanerVars, categorizerVars, loaderVars, dbVars>>

NextNotice == ParseFile

SpecNotice == InitNotice /\ [][NextNotice]_vars

\* The text holds one of the keyword signatures, whatever the case of its letters.
HoldsKeyword(text) == \E i \in DOMAIN otp_keywords : Contains(Lower(text), otp_keywords[i])

MaxChildren == 2

Tag_id == <<"i","d">>
Tag_ID == <<"I","D">>
Tag_transaction_id == <<"t","r","a","n","s","a","c","t","i","o","n","_","i","d">>

\* what ElementTree gives as the text of a child: None for <id/>, else the characters
ChildTexts ==
    {None, Str(<<" "," ">>), Str(<<"T","X","N","0","0","1">>),
     Str(<<" ","T","X","N","0","0","2"," ">>)}

ChildLeaves == {Leaf(tag, text) : tag \in {Tag_id, Tag_ID, Tag_transaction_id}, text \in ChildTexts}

\* no attribute, id="" and id="TXN003"
Attribs == {NoAttrib, Tag_id :> <<>>, Tag_id :> <<"T","X","N","0","0","3">>}

FieldNameLists == {<<Tag_id>>, <<Tag_ID>>, <<Tag_id, Tag_transaction_id>>}

ExtractTextInputs ==
    {[elem |-> [tag |-> Tag_transaction, text |-> None, children |-> children, attrib |-> attrib],
      field_names |-> field_names] :
        children \in UNION {[1..n -> ChildLeaves] : n \in 0..MaxChildren},
        attrib \in Attribs,
        field_names \in FieldNameLists}

InitExtractText ==
    /\ fn = ""
    /\ arg \in ExtractTextInputs
    /\ ret = None
    /\ ret2 = None
    /\ now = 0
    /\ InitRun /\ InitStages /\ InitLoader

ExtractText ==
    /\ fn = ""
    /\ fn' = "_extract_text"
    /\ ret' = _extract_text(arg.elem, arg.field_names)
    /\ UNCHANGED <<arg, ret2, now, notFn>>

NextExtractText == ExtractText

SpecExtractText == InitExtractText /\ [][NextExtractText]_vars

\* The values the candidates of one field name hold, in priority order: the
\* child element of that name, the attribute of that name, the children whose
\* names match it without regard to case.
CandidatesOf(elem, field_name) ==
    LET child == FindIndex(elem, field_name)
        anycase == SelectSeq(elem.children, LAMBDA c : Lower(c.tag) = Lower(field_name))
    IN  <<IF child # 0 THEN elem.children[child].text ELSE None,
          IF field_name \in DOMAIN elem.attrib THEN Str(elem.attrib[field_name]) ELSE None>>
        \o [i \in DOMAIN anycase |-> anycase[i].text]

RECURSIVE Candidates(_, _)
Candidates(elem, field_names) ==
    IF field_names = <<>> THEN <<>>
    ELSE CandidatesOf(elem, Head(field_names)) \o Candidates(elem, Tail(field_names))

\* The candidates whose value is a non-empty text.
NonEmptyAt(values) == {i \in DOMAIN values : IsStr(values[i]) /\ values[i].v # <<>>}

\* C20: _extract_text returns the first non-empty value found when trying the
\* candidates in priority order, returns None exactly when no candidate yields a
\* non-empty value, and never returns an empty string while a later candidate
\* holds a non-empty value.
C20_ExtractTextFirstNonEmpty ==
    fn = "_extract_text" =>
        LET values == Candidates(arg.elem, arg.field_names)
            held == NonEmptyAt(values)
        IN  /\ IsNone(ret) <=> held = {}
            /\ held # {} => ret = Str(Strip(values[Min(held)].v))
            /\ ret = Str(<<>>) => \A i \in held : i <= Min(held)

\* ---- amount texts --------------------------------------------------------
MaxInserted == 2

\* Decimal numerals with an optional leading '-'.
Numerals ==
    {<<"1","5","0","0",".","0","0">>, <<"-","5","0","0",".","0","0">>, <<"0">>, <<"-","1","2",".","5">>}

\* A currency symbol, a thousands comma, a space.
Decorations == {"$", ",", " "}

Insert(s, i, c) == SubSeq(s, 1, i) \o <<c>> \o SubSeq(s, i + 1, Len(s))

\* The texts obtained from text s by inserting up to k decorations.
RECURSIVE Decorated(_, _)
Decorated(s, k) ==
    IF k = 0 THEN {s}
    ELSE {s} \cup UNION {Decorated(Insert(s, i, c), k - 1) : i \in 0..Len(s), c \in Decorations}

AmountInputs ==
    UNION {{[numeral |-> n, text |-> t] : t \in Decorated(n, MaxInserted)} : n \in Numerals}

InitAmount ==
    /\ fn = ""
    /\ arg \in AmountInputs
    /\ ret = None
    /\ ret2 = None
    /\ now = 0
    /\ InitRun /\ InitStages /\ InitLoader

ExtractAmount ==
    /\ fn = ""
    /\ fn' = "_extract_amount"
    /\ ret' = _extract_amount(Element(Tag_transaction, <<Leaf(AMOUNT_FIELDS[1], Str(arg.text))>>),
                              AMOUNT_FIELDS)
    /\ UNCHANGED <<arg, ret2, now, notFn>>

NormalizeAmount ==
    /\ fn = ""
    /\ fn' = "_normalize_amount"
    /\ ret' = _normalize_amount(Str(arg.text))
    /\ UNCHANGED <<arg, ret2, now, notFn>>

NextAmount == ExtractAmount \/ NormalizeAmount

SpecAmount == InitAmount /\ [][NextAmount]_vars

\* C11: for every amount text obtained from a decimal numeral with an optional
\* leading '-' by inserting currency symbols, thousands commas and spaces,
\* _extract_amount and _normalize_amount return the value of the numeral.
C11_AmountParsingStripsFormatting ==
    fn \in {"_extract_amount", "_normalize_amount"} => ret = Float(FloatOf(arg.numeral))

\* "$1,500.00" has been parsed by the normalizer, "-500.00" by the extractor.
C11_Witness ==
    \/ /\ fn = "_normalize_amount"
       /\ arg.text = <<"$","1",",","5","0","0",".","0","0">>
       /\ ret = Float(150000)
    \/ /\ fn = "_extract_amount"
       /\ arg.text = <<"-","5","0","0",".","0","0">>
       /\ ret = Float(0 - 50000)


\* ---- amount texts with a sign ---------------------------------------------
MaxSigned == 4

SignedChars == {"-", "5", ".", "$", " "}

SignedInputs == {Str(s) : s \in UNION {[1..n -> SignedChars] : n \in 0..MaxSigned}}

InitSigned ==
    /\ fn = ""
    /\ arg \in SignedInputs
    /\ ret = None
    /\ ret2 = None
    /\ now = 0
    /\ InitRun /\ InitStages /\ InitLoader

NormalizeSigned ==
    /\ fn = ""
    /\ fn' = "_normalize_amount"
    /\ ret' = _normalize_amount(arg)
    /\ UNCHANGED <<arg, ret2, now, notFn>>

NextSigned == NormalizeSigned

SpecSigned == InitSigned /\ [][NextSigned]_vars

\* The text left after removing everything but digits, '.' and '-' begins
\* with '-'.
BeginsWithMinus(text) == StartsWith(KeepOnly(text, Digits \cup {".", "-"}), <<"-">>)

\* C26: for every string amount whose text, after all characters but digits,
\* '.' and '-' are removed, begins with '-', _normalize_amount returns null
\* or a value that is not positive; an unparseable text yields null, not an
\* exception.
C26_LeadingMinusNeverPositive ==
    (fn = "_normalize_amount" /\ BeginsWithMinus(arg.v)) =>
        \/ ret = None
        \/ IsFloat(ret) /\ ret.v <= 0

\* ---- phone numbers -------------------------------------------------------
Body_241234567 == <<"2","4","1","2","3","4","5","6","7">>
Body_788123456 == <<"7","8","8","1","2","3","4","5","6">>

NineDigitBodies == {Body_241234567, Body_788123456}

PhonePrefixes ==
    {<<>>, <<"+","2","5","0">>, <<"2","5","0">>, <<"0">>, <<"+","2","3","3">>, <<"2","3","3">>, <<"+">>,
     <<" ","0">>, <<"(","0",")"," ">>, <<"0","0">>}

PhoneBodies ==
    NineDigitBodies \cup
    {<<>>, <<"1","2">>, <<"+","1","2","3","4","5","6","7","8">>, <<"2","4","-","1","2","3","-","4","5","6","7">>, <<"2","4"," ","1","2","3"," ","4","5","6">>}

PhoneInputs == {None} \cup {Str(pre \o body) : pre \in PhonePrefixes, body \in PhoneBodies}

InitPhone ==
    /\ fn = ""
    /\ arg \in PhoneInputs
    /\ ret = None
    /\ ret2 = None
    /\ now = 0
    /\ InitRun /\ InitStages /\ InitLoader

NormalizePhone ==
    /\ fn = ""
    /\ fn' = "_normalize_phone"
    /\ ret' = _normalize_phone(arg)
    /\ UNCHANGED <<arg, ret2, now, notFn>>

NormalizePhoneAgain ==
    /\ fn = "_normalize_phone"
    /\ ~IsNone(ret)
    /\ fn' = "_normalize_phone twice"
    /\ ret2' = _normalize_phone(ret)
    /\ UNCHANGED <<arg, ret, now, notFn>>

ExtractPhone ==
    /\ fn = ""
    /\ fn' = "_extract_phone"
    /\ ret' = _extract_phone(Element(Tag_transaction,
                                     <<Leaf(<<"p","h","o","n","e">>, arg)>>))
    /\ UNCHANGED <<arg, ret2, now, notFn>>

NextPhone == NormalizePhone \/ NormalizePhoneAgain \/ ExtractPhone

SpecPhone == InitPhone /\ [][NextPhone]_vars

\* C8: _normalize_phone maps "0241234567" and "241234567" to "+233241234567"
\* and returns "+233241234567" unchanged.
C8_NormalizePhoneGhanaExamples ==
    fn = "_normalize_phone" =>
        /\ arg = Str(<<"0">> \o Body_241234567) => ret = Str(GHANA_CODE \o Body_241234567)
        /\ arg = Str(Body_241234567) => ret = Str(GHANA_CODE \o Body_241234567)
        /\ arg = Str(GHANA_CODE \o Body_241234567) => ret = arg

\* C9: _extract_phone returns "+233" followed by the nine subscriber digits for
\* each of the shapes "+233XXXXXXXXX", "233XXXXXXXXX", "0XXXXXXXXX" and "XXXXXXXXX".
C9_ExtractPhoneFourShapes ==
    fn = "_extract_phone" =>
        \A body \in NineDigitBodies :
            \A pre \in {GHANA_CODE, Tail(GHANA_CODE), <<"0">>, <<>>} :
                arg = Str(pre \o body) => ret = Str(GHANA_CODE \o body)

\* C10: phone normalization is idempotent: when _normalize_phone(p) is a
\* non-null q, _normalize_phone(q) is q.
C10_NormalizePhoneIdempotent ==
    fn = "_normalize_phone twice" => ret2 = ret

\* A number that normalization changed has been normalized a second time.
C10_Witness ==
    /\ fn = "_normalize_phone twice"
    /\ arg # ret
    /\ StartsWith(ret.v, COUNTRY_DIAL_CODE)

====
